---- MODULE Spec2Model ----
(***************************************************************************)
(* A model of zorsh-gen-rs: the declaration parser (src/src/type_parser.rs),*)
(* the dependency resolver (src/src/dependency_resolver.rs), the code      *)
(* generator (src/src/code_generator.rs) and the pipeline driver           *)
(* (src/src/converter.rs).                                                 *)
(*                                                                         *)
(* Representation.  A Rust String that holds a path ("src::a::User") is    *)
(* modelled by the sequence of its pieces between the "::" separators      *)
(* (<<"src","a","User">>); the empty string is <<"">> and "::User" is      *)
(* <<"","User">>, so format!("{}::{}", m, n) is m \o <<n>> and             *)
(* v.join("::") is JoinColons(v).  Emitted text is a sequence of lines,    *)
(* each line a string.  A syn type expression is a record with k = "path"  *)
(* (segs: the idents of the path, args: the type arguments of the last     *)
(* segment), k = "array" (elem, lit, len) or k = "tuple".                  *)
(***************************************************************************)
EXTENDS Integers, Sequences, FiniteSets, TLC

\* ------------------------------------------------------------------ bounds
\* Depth of the Rust call stack available to the recursion of parse_type.
StackLimit == 8
\* Nesting depth of Vec/Option/HashMap/array wrappers in the generated inputs.
WrapDepth == 2
\* Number of times convert is run on the same input.
MaxRuns == 2

\* ------------------------------------------------------------- small helpers
Range(s) == {s[i] : i \in 1..Len(s)}

Last(s) == s[Len(s)]

Front(s) == SubSeq(s, 1, Len(s) - 1)

Put(m, k, v) == [x \in (DOMAIN m) \cup {k} |-> IF x = k THEN v ELSE m[x]]

EmptyMap == [x \in {} |-> TRUE]

\* Vec<String>::join("::") in the split representation.
JoinColons(v) == IF v = <<>> THEN <<"">> ELSE v

\* String::replace("::", sep) of a path, as one string.
RECURSIVE ReplaceColons(_, _)
ReplaceColons(p, sep) ==
    IF Len(p) = 1 THEN p[1] ELSE p[1] \o sep \o ReplaceColons(Tail(p), sep)

\* Vec<String>::join(sep) of strings, as one string.
RECURSIVE JoinStr(_, _)
JoinStr(v, sep) ==
    IF v = <<>> THEN ""
    ELSE IF Len(v) = 1 THEN v[1] ELSE v[1] \o sep \o JoinStr(Tail(v), sep)

\* All orders in which the elements of a finite set can be iterated.
Perms(S) ==
    {p \in [1..Cardinality(S) -> S] : \A i, j \in 1..Cardinality(S) : i # j => p[i] # p[j]}

\* ------------------------------------------------------- TypeKind (type_parser.rs)
Primitives == {"u8", "u16", "u32", "u64", "i8", "i16", "i32", "i64", "f32", "f64"}

TkPrimitive(n) == [kind |-> "Primitive", name |-> n]

TkString == [kind |-> "String"]

TkStruct(n, p) == [kind |-> "Struct", name |-> n, path |-> p]

TkEnum(n, p) == [kind |-> "Enum", name |-> n, path |-> p]

TkVec(t) == [kind |-> "Vec", inner |-> t]

TkHashMap(k, v) == [kind |-> "HashMap", key |-> k, value |-> v]

TkOption(t) == [kind |-> "Option", inner |-> t]

TkArray(t, n) == [kind |-> "Array", inner |-> t, size |-> n]

\* The two ways parse_type ends without a value: a panic!, and recursion
\* without end.  `tail` says that every call of the recursion was the alias
\* call `return self.parse_type(aliased_type)`, which a build may compile to a
\* jump: such a recursion either exhausts the stack or never ends.
Panicked(msg) == [kind |-> "Panic", msg |-> msg]

StackOverflow == [kind |-> "StackOverflow", tail |-> TRUE]

Abnormal(t) == t.kind \in {"Panic", "StackOverflow"}

\* ------------------------------------------------------- has_borsh_derive
\* str::contains over the identifiers of the model: the identifiers that hold
\* the needle as a substring.
StrContains(ident, needle) ==
    \/ ident = needle
    \/ needle = "BorshSerialize" /\ ident = "BorshSerializeCompat"

has_borsh_derive(attrs) ==
    \E i \in 1..Len(attrs) :
        /\ attrs[i].path = "derive"
        /\ attrs[i].meta = "List"
        /\ \E j \in 1..Len(attrs[i].tokens) :
              \/ StrContains(attrs[i].tokens[j], "BorshSerialize")
              \/ StrContains(attrs[i].tokens[j], "BorshDeserialize")

should_process_item(self, attrs) == ~self.only_annotated \/ has_borsh_derive(attrs)

\* ------------------------------------------------------- TypeParser
TypeParser_new(module_path, only_annotated) ==
    [module_path |-> module_path, only_annotated |-> only_annotated,
     structs |-> EmptyMap, enums |-> EmptyMap, type_aliases |-> EmptyMap,
     status |-> "ok"]

\* A collection that stops at the first item that is no alias: it sees only the
\* aliases declared ahead of every struct and enum.
RECURSIVE collect_type_aliases_leading_only(_, _)
collect_type_aliases_leading_only(self, items) ==
    IF items = <<>> \/ Head(items).item # "type" THEN self
    ELSE collect_type_aliases_leading_only(
             [self EXCEPT !.type_aliases = Put(self.type_aliases, Head(items).ident, Head(items).ty)],
             Tail(items))

RECURSIVE collect_type_aliases(_, _)
collect_type_aliases(self, items) ==
    IF items = <<>> THEN self
    ELSE LET item == Head(items)
             next == IF item.item = "type"
                     THEN [self EXCEPT !.type_aliases = Put(self.type_aliases, item.ident, item.ty)]
                     ELSE self
         IN collect_type_aliases(next, Tail(items))

\* Wrapping an inner result: an inner panic or overflow unwinds through it.
Wrap1(inner, result) ==
    IF inner.kind = "StackOverflow" THEN [inner EXCEPT !.tail = FALSE]
    ELSE IF Abnormal(inner) THEN inner ELSE result
\* parse_type without the lookup of the enums: every reference is a Struct.
RECURSIVE parse_type_always_struct(_, _, _)
parse_type_always_struct(self, ty, depth) ==
    IF depth > StackLimit THEN StackOverflow
    ELSE IF ty.k = "path" THEN
        IF ty.segs = <<>> THEN Panicked("Invalid type path")
        ELSE LET type_name == Last(ty.segs) IN
          IF type_name \in DOMAIN self.type_aliases
          THEN parse_type_always_struct(self, self.type_aliases[type_name], depth + 1)
          ELSE IF type_name \in Primitives THEN TkPrimitive(type_name)
          ELSE IF type_name = "String" THEN TkString
          ELSE IF type_name = "Vec" THEN
              IF Len(ty.args) >= 1
              THEN LET i == parse_type_always_struct(self, ty.args[1], depth + 1) IN Wrap1(i, TkVec(i))
              ELSE Panicked("Invalid Vec type")
          ELSE IF type_name = "HashMap" THEN
              IF Len(ty.args) >= 1
              THEN LET k == parse_type_always_struct(self, ty.args[1], depth + 1) IN
                   IF Abnormal(k) THEN Wrap1(k, k)
                   ELSE IF Len(ty.args) >= 2
                        THEN LET v == parse_type_always_struct(self, ty.args[2], depth + 1) IN
                             Wrap1(v, TkHashMap(k, v))
                        ELSE Panicked("Invalid HashMap type")
              ELSE Panicked("Invalid HashMap type")
          ELSE IF type_name = "Option" THEN
              IF Len(ty.args) >= 1
              THEN LET i == parse_type_always_struct(self, ty.args[1], depth + 1) IN Wrap1(i, TkOption(i))
              ELSE Panicked("Invalid Option type")
          ELSE
              LET module_path ==
                      IF Len(ty.segs) > 1
                      THEN LET segments == Front(ty.segs) IN
                           JoinColons(IF segments[1] = "super" THEN Tail(segments) ELSE segments)
                      ELSE self.module_path
                  full_path ==
                      IF module_path = <<"">> THEN <<type_name>>
                      ELSE module_path \o <<type_name>>
              IN TkStruct(type_name, full_path)
    ELSE IF ty.k = "array" THEN
        IF ty.lit
        THEN LET i == parse_type_always_struct(self, ty.elem, depth + 1) IN Wrap1(i, TkArray(i, ty.len))
        ELSE Panicked("Invalid array size")
    ELSE Panicked("Unsupported type")


RECURSIVE parse_type(_, _, _)
parse_type(self, ty, depth) ==
    IF depth > StackLimit THEN StackOverflow
    ELSE IF ty.k = "path" THEN
        IF ty.segs = <<>> THEN Panicked("Invalid type path")
        ELSE LET type_name == Last(ty.segs) IN
          IF type_name \in DOMAIN self.type_aliases
          THEN parse_type(self, self.type_aliases[type_name], depth + 1)
          ELSE IF type_name \in Primitives THEN TkPrimitive(type_name)
          ELSE IF type_name = "String" THEN TkString
          ELSE IF type_name = "Vec" THEN
              IF Len(ty.args) >= 1
              THEN LET i == parse_type(self, ty.args[1], depth + 1) IN Wrap1(i, TkVec(i))
              ELSE Panicked("Invalid Vec type")
          ELSE IF type_name = "HashMap" THEN
              IF Len(ty.args) >= 1
              THEN LET k == parse_type(self, ty.args[1], depth + 1) IN
                   IF Abnormal(k) THEN Wrap1(k, k)
                   ELSE IF Len(ty.args) >= 2
                        THEN LET v == parse_type(self, ty.args[2], depth + 1) IN
                             Wrap1(v, TkHashMap(k, v))
                        ELSE Panicked("Invalid HashMap type")
              ELSE Panicked("Invalid HashMap type")
          ELSE IF type_name = "Option" THEN
              IF Len(ty.args) >= 1
              THEN LET i == parse_type(self, ty.args[1], depth + 1) IN Wrap1(i, TkOption(i))
              ELSE Panicked("Invalid Option type")
          ELSE
              LET module_path ==
                      IF Len(ty.segs) > 1
                      THEN LET segments == Front(ty.segs) IN
                           JoinColons(IF segments[1] = "super" THEN Tail(segments) ELSE segments)
                      ELSE self.module_path
                  full_path ==
                      IF module_path = <<"">> THEN <<type_name>>
                      ELSE module_path \o <<type_name>>
              IN IF full_path \in DOMAIN self.structs THEN TkStruct(type_name, full_path)
                 ELSE IF full_path \in DOMAIN self.enums THEN TkEnum(type_name, full_path)
                 ELSE TkStruct(type_name, full_path)
    ELSE IF ty.k = "array" THEN
        IF ty.lit
        THEN LET i == parse_type(self, ty.elem, depth + 1) IN Wrap1(i, TkArray(i, ty.len))
        ELSE Panicked("Invalid array size")
    ELSE Panicked("Unsupported type")

\* The fields of a field list, each parsed in declaration order; the first
\* abnormal end is the end of the whole list.
RECURSIVE parse_fields(_, _, _)
parse_fields(self, list, named) ==
    IF list = <<>> THEN [bad |-> FALSE, fields |-> <<>>]
    ELSE LET tk == parse_type(self, Head(list).ty, 0) IN
         IF Abnormal(tk)
         THEN [bad |-> TRUE, fields |-> <<>>,
               why |-> IF tk.kind = "Panic" THEN "panic"
                       ELSE IF tk.tail THEN "endless_tail_recursion" ELSE "stack_overflow"]
         ELSE LET rest == parse_fields(self, Tail(list), named) IN
              IF rest.bad THEN rest
              ELSE [bad |-> FALSE,
                    fields |-> <<[name |-> IF named THEN Head(list).ident ELSE "",
                                  type_kind |-> tk]>> \o rest.fields]

Abort(self, why) == [self EXCEPT !.status = why]

visit_item_struct(self, node) ==
    IF ~should_process_item(self, node.attrs) THEN self
    ELSE LET full_path == self.module_path \o <<node.ident>>
             parsed == IF node.fields.style = "named"
                       THEN parse_fields(self, node.fields.list, TRUE)
                       ELSE [bad |-> FALSE, fields |-> <<>>]
         IN IF parsed.bad THEN Abort(self, parsed.why)
            ELSE [self EXCEPT !.structs =
                     Put(self.structs, full_path,
                         [name |-> node.ident, module_path |-> self.module_path,
                          fields |-> parsed.fields])]

RECURSIVE parse_variants(_, _)
parse_variants(self, variants) ==
    IF variants = <<>> THEN [bad |-> FALSE, variants |-> <<>>]
    ELSE LET v == Head(variants)
             parsed == IF v.fields.style = "unit"
                       THEN [bad |-> FALSE, fields |-> <<>>]
                       ELSE parse_fields(self, v.fields.list, v.fields.style = "named")
         IN IF parsed.bad THEN [bad |-> TRUE, why |-> parsed.why, variants |-> <<>>]
            ELSE LET rest == parse_variants(self, Tail(variants)) IN
                 IF rest.bad THEN rest
                 ELSE [bad |-> FALSE,
                       variants |-> <<[name |-> v.ident,
                                       fields |-> [some |-> v.fields.style # "unit",
                                                   list |-> parsed.fields]]>> \o rest.variants]

visit_item_enum(self, node) ==
    IF ~should_process_item(self, node.attrs) THEN self
    ELSE LET full_path == self.module_path \o <<node.ident>>
             parsed == parse_variants(self, node.variants)
         IN IF parsed.bad THEN Abort(self, parsed.why)
            ELSE [self EXCEPT !.enums =
                     Put(self.enums, full_path,
                         [name |-> node.ident, module_path |-> self.module_path,
                          variants |-> parsed.variants])]

\* syn's Visit walks the items of the file in order, and the items of an
\* inline `mod` where it meets one.
RECURSIVE visit_items(_, _)
visit_items(self, items) ==
    IF items = <<>> \/ self.status # "ok" THEN self
    ELSE LET item == Head(items)
             next == IF item.item = "struct" THEN visit_item_struct(self, item)
                     ELSE IF item.item = "enum" THEN visit_item_enum(self, item)
                     ELSE IF item.item = "mod" THEN visit_items(self, item.items)
                     ELSE self
         IN visit_items(next, Tail(items))

\* A parse that walks what it could read and reports the syntax error last.
parse_file_late_error(self, content) ==
    LET walked == visit_items(collect_type_aliases(self, content.items), content.items)
    IN IF ~content.syntax_ok /\ walked.status = "ok"
       THEN [walked EXCEPT !.status = "parse_error"]
       ELSE walked

parse_file(self, content) ==
    IF ~content.syntax_ok THEN [self EXCEPT !.status = "parse_error"]
    ELSE visit_items(collect_type_aliases(self, content.items), content.items)

\* ------------------------------------------------------- DependencyResolver
\* The struct/enum references of a TypeKind, in the order the recursion of
\* add_type_dependencies and collect_type_dependencies meets them.
\* A walk that does not descend into Vec, Option, array or HashMap.
type_refs_direct_only(type_kind) ==
    IF type_kind.kind \in {"Struct", "Enum"} THEN <<type_kind.path>> ELSE <<>>
\* The references of a TypeKind, those tagged Struct only.
RECURSIVE type_refs_struct_only(_)
type_refs_struct_only(type_kind) ==
    IF type_kind.kind = "Struct" THEN <<type_kind.path>>
    ELSE IF type_kind.kind \in {"Vec", "Option", "Array"}
    THEN type_refs_struct_only(type_kind.inner)
    ELSE IF type_kind.kind = "HashMap"
    THEN type_refs_struct_only(type_kind.key) \o type_refs_struct_only(type_kind.value)
    ELSE <<>>


RECURSIVE type_refs(_)
type_refs(type_kind) ==
    IF type_kind.kind \in {"Struct", "Enum"} THEN <<type_kind.path>>
    ELSE IF type_kind.kind \in {"Vec", "Option", "Array"} THEN type_refs(type_kind.inner)
    ELSE IF type_kind.kind = "HashMap" THEN type_refs(type_kind.key) \o type_refs(type_kind.value)
    ELSE <<>>

RECURSIVE fields_refs(_)
fields_refs(fields) ==
    IF fields = <<>> THEN <<>> ELSE type_refs(Head(fields).type_kind) \o fields_refs(Tail(fields))

RECURSIVE variants_refs(_)
variants_refs(variants) ==
    IF variants = <<>> THEN <<>>
    ELSE (IF Head(variants).fields.some THEN fields_refs(Head(variants).fields.list) ELSE <<>>)
         \o variants_refs(Tail(variants))

\* node_indices: the index a path maps to after both insertion loops (a later
\* insert of the same key replaces the earlier one).
node_index(nodes, path) == CHOOSE i \in 1..Len(nodes) : nodes[i] = path /\ \A j \in (i+1)..Len(nodes) : nodes[j] # path

\* add_type_dependencies: for the references of one declaration, in order, the
\* targets of the edges added from the declaring node: a reference that is no
\* node adds none.
RECURSIVE add_type_dependencies(_, _)
add_type_dependencies(nodes, refs) ==
    IF refs = <<>> THEN <<>>
    ELSE (IF Head(refs) \in Range(nodes) THEN <<node_index(nodes, Head(refs))>> ELSE <<>>)
         \o add_type_dependencies(nodes, Tail(refs))

\* Per node index, the targets of the edges the struct loop adds from it, in
\* the order it adds them.
add_struct_dependencies(structs, nodes) ==
    [k \in 1..Len(nodes) |->
        IF nodes[k] \in DOMAIN structs /\ node_index(nodes, nodes[k]) = k
        THEN add_type_dependencies(nodes, fields_refs(structs[nodes[k]].fields))
        ELSE <<>>]

add_enum_dependencies(enums, nodes) ==
    [k \in 1..Len(nodes) |->
        IF nodes[k] \in DOMAIN enums /\ node_index(nodes, nodes[k]) = k
        THEN add_type_dependencies(nodes, variants_refs(enums[nodes[k]].variants))
        ELSE <<>>]

Reverse(s) == [i \in 1..Len(s) |-> s[Len(s) + 1 - i]]

\* petgraph's Graph::neighbors: the targets of a node's outgoing edges, the
\* edge added last first.
neighbors(edges, nx) == Reverse(edges[nx])

\* The inner loop of petgraph::algo::toposort for one root: a depth-first
\* search on an explicit stack that records the nodes in the order they finish.
RECURSIVE push_unvisited(_, _, _)
push_unvisited(stack, succs, discovered) ==
    IF succs = <<>> THEN stack
    ELSE push_unvisited(IF Head(succs) \in discovered THEN stack ELSE Append(stack, Head(succs)),
                        Tail(succs), discovered)

RECURSIVE dfs_finish(_, _, _)
dfs_finish(edges, stack, st) ==
    IF stack = <<>> \/ st.self_cycle THEN st
    ELSE LET nx == Last(stack) IN
         IF nx \notin st.discovered
         THEN IF nx \in Range(edges[nx])
              THEN [st EXCEPT !.self_cycle = TRUE]
              ELSE dfs_finish(edges,
                              push_unvisited(stack, neighbors(edges, nx), st.discovered \cup {nx}),
                              [st EXCEPT !.discovered = @ \cup {nx}])
         ELSE dfs_finish(edges, Front(stack),
                         IF nx \in st.finished THEN st
                         ELSE [st EXCEPT !.finished = @ \cup {nx},
                                         !.finish_stack = Append(@, nx)])

RECURSIVE dfs_roots(_, _, _)
dfs_roots(edges, roots, st) ==
    IF roots = <<>> \/ st.self_cycle THEN st
    ELSE dfs_roots(edges, Tail(roots),
                   IF Head(roots) \in st.discovered THEN st
                   ELSE dfs_finish(edges, <<Head(roots)>>, st))

\* petgraph::algo::toposort: the roots are taken from the last node index to
\* the first, the finish order is reversed, and the result is an error when a
\* node of it has a predecessor that comes later (a cycle).
toposort(n, edges) ==
    LET st == dfs_roots(edges, Reverse([i \in 1..n |-> i]),
                        [discovered |-> {}, finished |-> {}, finish_stack |-> <<>>,
                         self_cycle |-> FALSE])
        order == Reverse(st.finish_stack)
    IN IF st.self_cycle THEN [ok |-> FALSE, order |-> <<>>]
       ELSE IF \E i, j \in 1..n : i < j /\ order[i] \in Range(edges[order[j]])
       THEN [ok |-> FALSE, order |-> <<>>]
       ELSE [ok |-> TRUE, order |-> order]

\* collect_type_dependencies: the module of every referenced declared type.
collect_type_dependencies(structs, enums, refs) ==
    {IF refs[i] \in DOMAIN structs THEN structs[refs[i]].module_path
     ELSE enums[refs[i]].module_path
     : i \in {j \in 1..Len(refs) : refs[j] \in (DOMAIN structs) \cup (DOMAIN enums)}}

get_struct_dependencies(structs, enums, path) ==
    collect_type_dependencies(structs, enums, fields_refs(structs[path].fields))

get_enum_dependencies(structs, enums, path) ==
    collect_type_dependencies(structs, enums, variants_refs(enums[path].variants))

type_module_and_deps(structs, enums, type_path) ==
    IF type_path \in DOMAIN structs
    THEN [module_path |-> structs[type_path].module_path,
          dependencies |-> get_struct_dependencies(structs, enums, type_path)]
    ELSE [module_path |-> enums[type_path].module_path,
          dependencies |-> get_enum_dependencies(structs, enums, type_path)]

\* The grouping loop of resolve over the sorted paths: module -> ModuleTypes.
RECURSIVE module_groups_of(_, _, _, _)
module_groups_of(structs, enums, sorted_paths, groups) ==
    IF sorted_paths = <<>> THEN groups
    ELSE LET type_path == Head(sorted_paths)
             md == type_module_and_deps(structs, enums, type_path)
             m == md.module_path
             old == IF m \in DOMAIN groups THEN groups[m]
                    ELSE [module_path |-> m, type_paths |-> <<>>, dependencies |-> {}]
             new == [old EXCEPT !.type_paths = Append(@, type_path),
                                !.dependencies = @ \cup md.dependencies]
         IN module_groups_of(structs, enums, Tail(sorted_paths), Put(groups, m, new))

\* The declaration a node stands for, as every lookup of the resolver and the
\* generator finds it: the struct map first, then the enum map.
decl_module(structs, enums, path) ==
    IF path \in DOMAIN structs THEN structs[path].module_path ELSE enums[path].module_path

decl_name(structs, enums, path) ==
    IF path \in DOMAIN structs THEN structs[path].name ELSE enums[path].name

\* TypeDependencies.module_imports: for every edge whose two ends lie in
\* different modules, the referenced type's name under the referenced type's
\* module.
module_imports_of(structs, enums, nodes, edges) ==
    LET cross == {e \in UNION {{<<k, edges[k][i]>> : i \in 1..Len(edges[k])} : k \in 1..Len(nodes)} :
                    decl_module(structs, enums, nodes[e[1]])
                    # decl_module(structs, enums, nodes[e[2]])}
        mods == {decl_module(structs, enums, nodes[e[2]]) : e \in cross}
    IN [m \in mods |->
          {decl_name(structs, enums, nodes[e[2]]) :
             e \in {x \in cross : decl_module(structs, enums, nodes[x[2]]) = m}}]

\* graph[idx] for idx in sorted: the paths of the nodes in sorted order.
sorted_paths_of(nodes, sorted) == [i \in 1..Len(nodes) |-> nodes[sorted[i]]]

\* TypeDependencies.ordered_types: the paths in sorted order.
ordered_types_of(nodes, sorted) == sorted_paths_of(nodes, sorted)

\* The graph resolve builds when the struct map is iterated in s_order and the
\* enum map in e_order.
resolve_graph(structs, enums, s_order, e_order) ==
    LET nodes == s_order \o e_order
    IN [nodes |-> nodes,
        edges |-> [k \in 1..Len(nodes) |->
                     add_struct_dependencies(structs, nodes)[k]
                     \o add_enum_dependencies(enums, nodes)[k]]]

\* ------------------------------------------------------- ZorshGenerator
\* str::to_lowercase over the identifiers of the model.
to_lowercase(s) ==
    CASE s = "Models" -> "models"
      [] s = "Types" -> "types"
      [] s = "A" -> "a"
      [] s = "B" -> "b"
      [] s = "C" -> "c"
      [] OTHER -> s

\* A mapping that loses the element type under an Option inside a wrapper.
RECURSIVE type_to_zorsh_flat_option(_)
type_to_zorsh_flat_option(type_kind) ==
    CASE type_kind.kind = "Primitive" -> "b." \o type_kind.name \o "()"
      [] type_kind.kind = "String" -> "b.string()"
      [] type_kind.kind \in {"Struct", "Enum"} -> type_kind.name \o "Schema"
      [] type_kind.kind = "Vec" -> "b.vec(" \o type_to_zorsh_flat_option(type_kind.inner) \o ")"
      [] type_kind.kind = "HashMap" ->
            "b.hashMap(" \o type_to_zorsh_flat_option(type_kind.key) \o ", "
                         \o type_to_zorsh_flat_option(type_kind.value) \o ")"
      [] type_kind.kind = "Option" ->
            IF type_kind.inner.kind \in {"Vec", "HashMap", "Option", "Array"}
            THEN "b.option(" \o "b." \o "unit()" \o ")"
            ELSE "b.option(" \o type_to_zorsh_flat_option(type_kind.inner) \o ")"
      [] type_kind.kind = "Array" ->
            "b.array(" \o type_to_zorsh_flat_option(type_kind.inner) \o ", "
                       \o ToString(type_kind.size) \o ")"

RECURSIVE type_to_zorsh(_)
type_to_zorsh(type_kind) ==
    CASE type_kind.kind = "Primitive" -> "b." \o type_kind.name \o "()"
      [] type_kind.kind = "String" -> "b.string()"
      [] type_kind.kind = "Struct" -> type_kind.name \o "Schema"
      [] type_kind.kind = "Enum" -> type_kind.name \o "Schema"
      [] type_kind.kind = "Vec" -> "b.vec(" \o type_to_zorsh(type_kind.inner) \o ")"
      [] type_kind.kind = "HashMap" ->
            "b.hashMap(" \o type_to_zorsh(type_kind.key) \o ", "
                         \o type_to_zorsh(type_kind.value) \o ")"
      [] type_kind.kind = "Option" -> "b.option(" \o type_to_zorsh(type_kind.inner) \o ")"
      [] type_kind.kind = "Array" ->
            "b.array(" \o type_to_zorsh(type_kind.inner) \o ", " \o ToString(type_kind.size) \o ")"

\* blocks.join(",\n") as lines: each block is a sequence of lines, and the
\* comma lands at the end of the last line of every block but the last; the
\* join of no block is one empty line.
RECURSIVE join_blocks(_)
join_blocks(blocks) ==
    IF blocks = <<>> THEN <<"">>
    ELSE IF Len(blocks) = 1 THEN blocks[1]
    ELSE Front(blocks[1]) \o <<Last(blocks[1]) \o ",">> \o join_blocks(Tail(blocks))

field_lines(fields, indent) ==
    [i \in 1..Len(fields) |->
        <<indent \o fields[i].name \o ": " \o type_to_zorsh(fields[i].type_kind)>>]

generate_struct(struct_info) ==
    <<"export const " \o struct_info.name \o "Schema = b.struct({">>
    \o join_blocks(field_lines(struct_info.fields, "    "))
    \o <<"});">>

\* A mapping that inlines every single-field variant, named or not.
variant_block_inline_any_single(variant) ==
    IF ~variant.fields.some THEN <<"    " \o variant.name \o ": " \o "b.unit()">>
    ELSE IF Len(variant.fields.list) = 1
    THEN <<"    " \o variant.name \o ": " \o type_to_zorsh(variant.fields.list[1].type_kind)>>
    ELSE <<"    " \o variant.name \o ": " \o "b.struct({">>
         \o join_blocks(field_lines(variant.fields.list, "        "))
         \o <<"    })">>

variant_block(variant) ==
    IF ~variant.fields.some THEN <<"    " \o variant.name \o ": " \o "b.unit()">>
    ELSE IF Len(variant.fields.list) = 1 /\ variant.fields.list[1].name = ""
    THEN <<"    " \o variant.name \o ": " \o type_to_zorsh(variant.fields.list[1].type_kind)>>
    ELSE <<"    " \o variant.name \o ": " \o "b.struct({">>
         \o join_blocks(field_lines(variant.fields.list, "        "))
         \o <<"    })">>

generate_enum(enum_info) ==
    <<"export const " \o enum_info.name \o "Schema = b.enum({">>
    \o join_blocks([i \in 1..Len(enum_info.variants) |-> variant_block(enum_info.variants[i])])
    \o <<"});">>

get_type_module(structs, enums, type_path) ==
    IF type_path \in DOMAIN structs THEN structs[type_path].module_path
    ELSE IF type_path \in DOMAIN enums THEN enums[type_path].module_path
    ELSE IF Len(type_path) > 1 THEN Front(type_path) ELSE type_path

\* One import statement of generate_module.
import_line(module_path, type_names) ==
    "import { "
    \o JoinStr([i \in 1..Len(type_names) |-> type_names[i] \o "Schema"], ", ")
    \o " } from './"
    \o ReplaceColons([i \in 1..Len(module_path) |-> to_lowercase(module_path[i])], "/")
    \o "';"

\* The names of a set in the order name_order iterates them.
RECURSIVE in_order(_, _)
in_order(S, order) ==
    IF order = <<>> THEN <<>>
    ELSE (IF Head(order) \in S THEN <<Head(order)>> ELSE <<>>) \o in_order(S, Tail(order))

\* An import loop without the test `module_path != current_module`.
RECURSIVE import_lines_unguarded(_, _, _, _)
import_lines_unguarded(current_module, module_imports, key_order, name_order) ==
    IF key_order = <<>> THEN <<>>
    ELSE <<import_line(Head(key_order), in_order(module_imports[Head(key_order)], name_order))>>
         \o import_lines_unguarded(current_module, module_imports, Tail(key_order), name_order)

RECURSIVE import_lines(_, _, _, _)
import_lines(current_module, module_imports, key_order, name_order) ==
    IF key_order = <<>> THEN <<>>
    ELSE (IF Head(key_order) # current_module
          THEN <<import_line(Head(key_order), in_order(module_imports[Head(key_order)], name_order))>>
          ELSE <<>>)
         \o import_lines(current_module, module_imports, Tail(key_order), name_order)

\* The definitions of a module without the branch of the enums.
RECURSIVE definition_lines_structs_only(_, _, _, _)
definition_lines_structs_only(structs, enums, current_module, ordered_types) ==
    IF ordered_types = <<>> THEN <<>>
    ELSE LET type_path == Head(ordered_types)
             here == IF get_type_module(structs, enums, type_path) = current_module
                        /\ type_path \in DOMAIN structs
                     THEN generate_struct(structs[type_path]) \o <<"">>
                     ELSE <<>>
         IN here \o definition_lines_structs_only(structs, enums, current_module,
                                                  Tail(ordered_types))

RECURSIVE definition_lines(_, _, _, _)
definition_lines(structs, enums, current_module, ordered_types) ==
    IF ordered_types = <<>> THEN <<>>
    ELSE LET type_path == Head(ordered_types)
             here == IF get_type_module(structs, enums, type_path) = current_module
                     THEN IF type_path \in DOMAIN structs
                          THEN generate_struct(structs[type_path]) \o <<"">>
                          ELSE IF type_path \in DOMAIN enums
                          THEN generate_enum(enums[type_path]) \o <<"">>
                          ELSE <<>>
                     ELSE <<>>
         IN here \o definition_lines(structs, enums, current_module, Tail(ordered_types))

\* The export list without the filter on the module of the type.
RECURSIVE export_names_all_modules(_, _, _, _)
export_names_all_modules(structs, enums, current_module, ordered_types) ==
    IF ordered_types = <<>> THEN <<>>
    ELSE <<<<"    " \o Last(Head(ordered_types)) \o "Schema">>>>
         \o export_names_all_modules(structs, enums, current_module, Tail(ordered_types))

RECURSIVE export_names(_, _, _, _)
export_names(structs, enums, current_module, ordered_types) ==
    IF ordered_types = <<>> THEN <<>>
    ELSE (IF get_type_module(structs, enums, Head(ordered_types)) = current_module
          THEN <<<<"    " \o Last(Head(ordered_types)) \o "Schema">>>>
          ELSE <<>>)
         \o export_names(structs, enums, current_module, Tail(ordered_types))

\* generate_module; key_order and name_order are the orders in which the
\* import manifest and its name sets are iterated.
generate_module(structs, enums, current_module, deps, key_order, name_order) ==
    LET exports == export_names(structs, enums, current_module, deps.ordered_types)
    IN <<"import { b } from '@zorsh/zorsh';">>
       \o import_lines(current_module, deps.module_imports, key_order, name_order)
       \o <<"">>
       \o definition_lines(structs, enums, current_module, deps.ordered_types)
       \o (IF exports # <<>> THEN <<"export {">> \o join_blocks(exports) \o <<"};">> ELSE <<>>)

\* ------------------------------------------------------- SourceLoader
\* calculate_module_path of a file path relative to the root; the last
\* component is the file name without its ".rs".
RECURSIVE retain_not_mod(_)
retain_not_mod(parts) ==
    IF parts = <<>> THEN <<>>
    ELSE (IF Head(parts) # "mod" THEN <<Head(parts)>> ELSE <<>>) \o retain_not_mod(Tail(parts))

calculate_module_path(rel_path) == JoinColons(retain_not_mod(rel_path))

\* ------------------------------------------------------- ZorshConverter
get_output_path(output_structure, module_path) ==
    ReplaceColons([i \in 1..Len(module_path) |-> to_lowercase(module_path[i])],
                  IF output_structure = "Nested" THEN "/" ELSE "_") \o ".ts"

\* HashMap::extend: the entries of `more` replace those of `all` with the same key.
extend(all, more) ==
    [k \in (DOMAIN all) \cup (DOMAIN more) |-> IF k \in DOMAIN more THEN more[k] ELSE all[k]]

\* The modules of the ordered types (converter.rs, "Get unique set of modules").
modules_of(structs, enums, ordered_types) ==
    {decl_module(structs, enums, ordered_types[i]) : i \in 1..Len(ordered_types)}

NoDependencies == [ordered_types |-> <<>>, module_imports |-> EmptyMap]

\* ------------------------------------------------------- source text (inputs)
Ty(name) == [k |-> "path", segs |-> <<name>>, args |-> <<>>]

TyPath(segs) == [k |-> "path", segs |-> segs, args |-> <<>>]

TyGen(name, args) == [k |-> "path", segs |-> <<name>>, args |-> args]

TyArray(elem, n) == [k |-> "array", elem |-> elem, lit |-> TRUE, len |-> n]

TyTuple == [k |-> "tuple"]

\* `&'a T`, `dyn Trait`: further syn::Type variants that are neither Path nor Array.
TyReference == [k |-> "reference"]

TyTraitObject == [k |-> "trait_object"]

\* `[elem; N]` with a length that is no integer literal.
TyArrayConst(elem) == [k |-> "array", elem |-> elem, lit |-> FALSE, len |-> 0]

Derive(tokens) == <<[path |-> "derive", meta |-> "List", tokens |-> tokens]>>

Borsh == Derive(<<"BorshSerialize">>)

NamedFields(list) == [style |-> "named", list |-> list]

UnnamedFields(list) == [style |-> "unnamed", list |-> list]

UnitFields == [style |-> "unit", list |-> <<>>]

Field(ident, ty) == [ident |-> ident, ty |-> ty]

ItemStruct(ident, attrs, fields) ==
    [item |-> "struct", ident |-> ident, attrs |-> attrs, fields |-> fields]

ItemEnum(ident, attrs, variants) ==
    [item |-> "enum", ident |-> ident, attrs |-> attrs, variants |-> variants]

ItemType(ident, ty) == [item |-> "type", ident |-> ident, ty |-> ty]

Variant(ident, fields) == [ident |-> ident, fields |-> fields]

SourceFile(rel_path, items) ==
    [rel_path |-> rel_path, content |-> [syntax_ok |-> TRUE, items |-> items]]

\* A file whose text holds these declarations and then does not parse.
MalformedFile(rel_path, items) ==
    [rel_path |-> rel_path, content |-> [syntax_ok |-> FALSE, items |-> items]]

Scenario(only_annotated, files) == [only_annotated |-> only_annotated, files |-> files]

\* One wrapper around a type expression.
Wrap(t) ==
    {TyGen("Vec", <<t>>), TyGen("Option", <<t>>), TyArray(t, 4),
     TyGen("HashMap", <<Ty("String"), t>>), TyGen("HashMap", <<t, Ty("u8")>>)}

RECURSIVE Wrapped(_, _)
Wrapped(t, d) ==
    IF d = 0 THEN {t}
    ELSE Wrapped(t, d - 1) \cup UNION {Wrap(x) : x \in Wrapped(t, d - 1)}

\* --- types A, B, C that reference each other, in four file layouts.
Layouts == {"same", "sibling", "nested", "rootmod"}

\* How a declaration of the file of `from` writes a reference to `name`.
RefTo(layout, from, name) ==
    IF layout \in {"same", "rootmod"} \/ to_lowercase(from) = to_lowercase(name)
    THEN Ty(name)
    ELSE TyPath(<<"super", to_lowercase(name), name>>)

RefField(layout, from, shape) ==
    CASE shape = "none" -> Ty("u32")
      [] shape = "A" -> RefTo(layout, from, "A")
      [] shape = "B" -> RefTo(layout, from, "B")
      [] shape = "vecB" -> TyGen("Vec", <<RefTo(layout, from, "B")>>)
      [] shape = "self" -> Ty(from)
      [] shape = "vecself" -> TyGen("Vec", <<Ty(from)>>)

DeclA(layout, akind, fa) ==
    IF akind = "struct"
    THEN ItemStruct("A", Borsh, NamedFields(<<Field("x", RefField(layout, "A", fa))>>))
    ELSE ItemEnum("A", Borsh,
                  <<Variant("V", IF fa = "none" THEN UnitFields
                                 ELSE UnnamedFields(<<Field("", RefField(layout, "A", fa))>>))>>)

DeclB(layout, fb) ==
    ItemStruct("B", Borsh, NamedFields(<<Field("y", RefField(layout, "B", fb))>>))

\* C lives in the file of A.
DeclC(layout, fc) ==
    ItemStruct("C", Borsh, NamedFields(<<Field("z", RefField(layout, "A", fc))>>))

RefFiles(layout, akind, fa, fb, fc, a_first) ==
    LET a == DeclA(layout, akind, fa)
        b == DeclB(layout, fb)
        c == DeclC(layout, fc)
        ac == IF a_first THEN <<a, c>> ELSE <<c, a>>
        all == IF a_first THEN <<a, b, c>> ELSE <<b, c, a>>
    IN CASE layout = "same" -> <<SourceFile(<<"lib">>, all)>>
         [] layout = "rootmod" -> <<SourceFile(<<"mod">>, all)>>
         [] layout = "sibling" -> <<SourceFile(<<"a">>, ac), SourceFile(<<"b">>, <<b>>)>>
         [] layout = "nested" ->
               <<SourceFile(<<"src", "a">>, ac), SourceFile(<<"src", "b">>, <<b>>)>>

RefScenariosIn(layouts) ==
    {Scenario(TRUE, RefFiles(layout, akind, fa, fb, fc, a_first)) :
        layout \in layouts, akind \in {"struct", "enum"}, fa \in {"none", "B", "vecB"},
        fb \in {"none", "A", "self", "vecself"}, fc \in {"none", "A", "B"}, a_first \in BOOLEAN}

\* --- a field of A that reaches B through WrapDepth wrappers.
WrapScenarios ==
    {Scenario(TRUE, <<SourceFile(<<"lib">>,
         <<ItemStruct("A", Borsh, NamedFields(<<Field("x", t), Field("n", Ty("u64"))>>)),
           ItemStruct("B", Borsh, NamedFields(<<Field("y", Ty("String"))>>))>>)>>) :
        t \in Wrapped(Ty("B"), WrapDepth) \cup Wrapped(Ty("i16"), WrapDepth)}

\* --- type aliases, declared before or after the struct that uses them.
AliasTables ==
    {<<ItemType("Hash", TyArray(Ty("u8"), 32))>>,
     <<ItemType("AccountId", TyArray(Ty("u8"), 32)),
       ItemType("Registry", TyGen("Vec", <<Ty("AccountId")>>))>>,
     <<ItemType("Registry", TyGen("Vec", <<Ty("AccountId")>>)),
       ItemType("AccountId", TyArray(Ty("u8"), 32))>>,
     <<ItemType("AccountId", TyArray(Ty("u8"), 32)), ItemType("Balance", Ty("u64")),
       ItemType("Balances", TyGen("HashMap", <<Ty("AccountId"), Ty("Balance")>>))>>,
     <<ItemType("Owner", Ty("B")), ItemType("Owners", TyGen("Option", <<Ty("Owner")>>))>>,
     <<ItemType("X", Ty("Y")), ItemType("Y", Ty("X"))>>,
     <<ItemType("X", Ty("X"))>>,
     <<ItemType("X", TyGen("Vec", <<Ty("X")>>))>>,
     <<ItemType("X", Ty("Y")), ItemType("Y", Ty("Z")), ItemType("Z", Ty("u8"))>>}

AliasNames(table) == {table[i].ident : i \in 1..Len(table)}

AliasScenarios ==
    {Scenario(TRUE, <<SourceFile(<<"lib">>,
         LET s == <<ItemStruct("S", Borsh, NamedFields(<<Field("f", t), Field("g", Ty("u8"))>>)),
                    ItemStruct("B", Borsh, NamedFields(<<Field("y", Ty("u8"))>>))>>
         IN IF before THEN table \o s ELSE s \o table)>>) :
        table \in AliasTables, before \in BOOLEAN,
        t \in {Ty("Hash"), Ty("Registry"), Ty("Balances"), Ty("Owners"), Ty("X"), Ty("u16"),
               TyGen("Vec", <<Ty("Hash")>>), TyGen("Option", <<Ty("X")>>)}}

\* --- enum variant shapes and struct field-list shapes.
VariantShapes ==
    {UnitFields, UnnamedFields(<<>>), NamedFields(<<>>),
     UnnamedFields(<<Field("", Ty("String"))>>),
     UnnamedFields(<<Field("", Ty("B"))>>),
     UnnamedFields(<<Field("", Ty("u8")), Field("", Ty("u16"))>>),
     NamedFields(<<Field("timestamp", Ty("u64"))>>),
     NamedFields(<<Field("from", Ty("B")), Field("amount", Ty("u64"))>>)}

EnumScenarios ==
    {Scenario(TRUE, <<SourceFile(<<"lib">>,
         <<ItemEnum("Event", Borsh, <<Variant("First", v1), Variant("Second", v2)>>),
           ItemStruct("B", Borsh, NamedFields(<<Field("y", Ty("u8"))>>))>>)>>) :
        v1 \in VariantShapes, v2 \in VariantShapes}

StructShapes ==
    {UnitFields, NamedFields(<<>>),
     NamedFields(<<Field("name", Ty("String")), Field("age", Ty("u32"))>>),
     NamedFields(<<Field("age", Ty("u32")), Field("name", Ty("String"))>>),
     NamedFields(<<Field("owner", Ty("B"))>>),
     UnnamedFields(<<Field("", Ty("u32"))>>),
     UnnamedFields(<<Field("", Ty("String")), Field("", Ty("B"))>>)}

StructScenarios ==
    {Scenario(TRUE, <<SourceFile(<<"lib">>,
         <<ItemStruct("User", Borsh, shape),
           ItemStruct("B", Borsh, NamedFields(<<Field("y", Ty("u8"))>>))>>)>>) :
        shape \in StructShapes}

\* --- attributes, under both settings of only_annotated.
AttrPool ==
    {<<>>, Borsh, Derive(<<"BorshDeserialize">>), Derive(<<"Debug", "Clone">>),
     Derive(<<"Debug", "BorshSerialize">>), Derive(<<"BorshSerializeCompat">>),
     <<[path |-> "serde", meta |-> "List", tokens |-> <<"BorshSerialize">>]>>,
     <<[path |-> "derive", meta |-> "Path", tokens |-> <<>>]>>,
     Derive(<<"Debug">>) \o Derive(<<"BorshDeserialize", "BorshSerialize">>)}

FilterScenarios ==
    {Scenario(oa, <<SourceFile(<<"src", "lib">>,
         <<ItemStruct("Annotated", a1, NamedFields(<<Field("field", Ty("String"))>>)),
           ItemEnum("Status", a2, <<Variant("Active", UnitFields)>>)>>)>>) :
        oa \in BOOLEAN, a1 \in AttrPool, a2 \in AttrPool}

\* --- text that does not parse, and a type expression outside the grammar.
FailScenarios ==
    LET good == SourceFile(<<"a">>,
                    <<ItemStruct("A", Borsh, NamedFields(<<Field("x", Ty("u8"))>>))>>)
        bad == {MalformedFile(<<"b">>, items) :
                  items \in {<<>>,
                             <<ItemStruct("M", Borsh, NamedFields(<<Field("y", Ty("u8"))>>))>>,
                             <<ItemType("Hash", TyArray(Ty("u8"), 32)),
                               ItemEnum("E", Borsh, <<Variant("V", UnitFields)>>)>>,
                             <<ItemStruct("M", Borsh, NamedFields(<<Field("y", TyTuple)>>))>>}}
    IN {Scenario(oa, <<good, b>>) : b \in bad, oa \in BOOLEAN}
       \cup {Scenario(oa, <<b, good>>) : b \in bad, oa \in BOOLEAN}
       \cup {Scenario(oa, <<b>>) : b \in bad, oa \in BOOLEAN}
       \cup {Scenario(TRUE, <<SourceFile(<<"a">>,
                        <<ItemStruct("A", Borsh, NamedFields(<<Field("x", TyTuple)>>))>>)>>)}

\* --- declarations that share module path and name: in one file, in a.rs and
\* a/mod.rs (read in either order), and as a struct and an enum.
DuplicateDecls ==
    {ItemStruct("T", Borsh, NamedFields(<<Field("y", Ty("String"))>>)),
     ItemStruct("T", Borsh, NamedFields(<<Field("x", Ty("u8")), Field("y", Ty("String"))>>)),
     ItemEnum("T", Borsh, <<Variant("V", UnitFields)>>)}

DuplicateScenarios ==
    LET first == ItemStruct("T", Borsh, NamedFields(<<Field("x", Ty("u8"))>>))
        user == ItemStruct("U", Borsh, NamedFields(<<Field("t", Ty("T"))>>))
    IN UNION {{Scenario(TRUE, <<SourceFile(<<"a">>, <<first, user, second>>)>>),
               Scenario(TRUE, <<SourceFile(<<"a">>, <<first, second, user>>)>>),
               Scenario(TRUE, <<SourceFile(<<"a">>, <<first, user>>),
                                SourceFile(<<"a", "mod">>, <<second>>)>>),
               Scenario(TRUE, <<SourceFile(<<"a", "mod">>, <<second>>),
                                SourceFile(<<"a">>, <<first, user>>)>>)} :
                 second \in DuplicateDecls}

\* --- field types outside the supported shapes, bare and inside a wrapper.
UnsupportedTypes ==
    {TyTuple, TyReference, TyTraitObject, Ty("Vec"), Ty("Option"), Ty("HashMap"),
     TyGen("HashMap", <<Ty("String")>>), TyArrayConst(Ty("u8")),
     TyGen("Vec", <<TyTuple>>), TyGen("Option", <<TyArrayConst(Ty("u8"))>>),
     TyGen("HashMap", <<Ty("String"), Ty("Vec")>>), TyArray(TyReference, 4)}

UnsupportedScenarios ==
    {Scenario(TRUE, <<SourceFile(<<"lib">>,
         <<ItemStruct("B", Borsh, NamedFields(<<Field("y", Ty("u8"))>>)),
           IF in_enum
           THEN ItemEnum("A", Borsh, <<Variant("V", UnnamedFields(<<Field("", t)>>))>>)
           ELSE ItemStruct("A", Borsh, NamedFields(<<Field("n", Ty("u64")), Field("x", t)>>))>>)>>) :
        t \in UnsupportedTypes, in_enum \in BOOLEAN}

\* --- the files of test_output_structure_config, in a directory whose name
\* has a capital or not, with or without a file that declares nothing included.
ModelDirs == {"models", "Models"}

OutputScenarios ==
    {Scenario(TRUE,
        <<SourceFile(<<"src", dir, "user">>,
             <<ItemStruct("User", Borsh, NamedFields(<<Field("name", Ty("String"))>>))>>),
          SourceFile(<<"src", dir, "post">>,
             <<ItemStruct("Post", post_attrs, NamedFields(<<Field("title", Ty("String"))>>))>>),
          SourceFile(<<"src", dir, "mod">>,
             <<ItemStruct("Meta", mod_attrs, NamedFields(<<Field("n", Ty("u8"))>>))>>)>>) :
        dir \in ModelDirs, post_attrs \in {Borsh, <<>>}, mod_attrs \in {Borsh, <<>>}}

\* --- two modules whose output files have one name: a/b.rs beside a_b.rs under
\* the Flat structure, Types.rs beside types.rs under both.
CollisionScenarios ==
    {Scenario(TRUE,
        IF p_first THEN <<SourceFile(pair[1], <<p>>), SourceFile(pair[2], <<q>>)>>
        ELSE <<SourceFile(pair[2], <<q>>), SourceFile(pair[1], <<p>>)>>) :
        pair \in {<<<<"a", "b">>, <<"a_b">>>>, <<<<"Types">>, <<"types">>>>},
        p \in {ItemStruct("P", Borsh, NamedFields(<<Field("x", Ty("u8"))>>))},
        q \in {ItemStruct("Q", Borsh, NamedFields(<<Field("y", Ty("String"))>>)),
               ItemEnum("Q", Borsh, <<Variant("V", UnitFields)>>)},
        p_first \in BOOLEAN}

\* --- three sibling modules a, b and c: the types of a and of b reference a
\* type of another module or none.
ChainScenarios ==
    {Scenario(TRUE,
        <<SourceFile(<<"a">>, <<ItemStruct("A", Borsh, NamedFields(<<Field("x", ta)>>))>>),
          SourceFile(<<"b">>, <<ItemStruct("B", Borsh, NamedFields(<<Field("y", tb)>>))>>),
          SourceFile(<<"c">>, <<ItemStruct("C", Borsh, NamedFields(<<Field("z", Ty("u8"))>>))>>)>>) :
        ta \in {Ty("u32"), TyPath(<<"super", "c", "C">>), TyPath(<<"super", "b", "B">>)},
        tb \in {Ty("u8"), TyPath(<<"super", "c", "C">>)}}

\* The scenarios run under both output structures.
LayoutScenarios ==
    OutputScenarios \cup CollisionScenarios \cup RefScenariosIn({"sibling", "nested"})

\* --- one text whose struct A names its field's type by a path of several
\* segments: a type of another module, of a parent's child, of the crate, and
\* the type B of the text itself under the module name of convert_str.
QualifiedTypes ==
    {TyPath(<<"other", "Foo">>), TyPath(<<"super", "b", "B">>),
     TyPath(<<"crate", "models", "User">>), TyPath(<<"root", "B">>),
     TyGen("Vec", <<TyPath(<<"other", "B">>)>>),
     TyGen("HashMap", <<Ty("String"), TyPath(<<"super", "other", "Foo">>)>>)}

QualifiedScenarios ==
    {Scenario(TRUE, <<SourceFile(<<"lib">>,
         <<IF in_enum
           THEN ItemEnum("A", Borsh, <<Variant("V", UnnamedFields(<<Field("", t)>>)),
                                       Variant("W", UnitFields)>>)
           ELSE ItemStruct("A", Borsh, NamedFields(<<Field("x", t)>>)),
           ItemStruct("B", Borsh, NamedFields(<<Field("y", Ty("u8"))>>))>>)>>) :
        t \in QualifiedTypes, in_enum \in BOOLEAN}

\* The scenarios of one file, which convert_str takes as well.
TextScenarios ==
    QualifiedScenarios \cup UnsupportedScenarios \cup RefScenariosIn({"same"}) \cup WrapScenarios
    \cup AliasScenarios \cup EnumScenarios \cup StructScenarios \cup FilterScenarios
    \cup {sc \in FailScenarios \cup DuplicateScenarios : Len(sc.files) = 1}

Scenarios ==
    ChainScenarios \cup OutputScenarios \cup CollisionScenarios \cup UnsupportedScenarios \cup RefScenariosIn(Layouts) \cup WrapScenarios \cup AliasScenarios \cup EnumScenarios
    \cup StructScenarios \cup FilterScenarios \cup FailScenarios \cup DuplicateScenarios

\* ------------------------------------------------------- the pipeline
VARIABLES
    config,          \* Config: only_annotated, output_structure
    entry,           \* the function called: "convert" or "convert_str"
    source_files,    \* what discover_rust_files returned; for convert_str, the one
                     \* text given, under the module name root
    pc,              \* "parse", "generate", "done", or "hung" in a call that never returns
    next_file,       \* index of the next source file of the parse loop
    all_structs,     \* path -> StructInfo
    all_enums,       \* path -> EnumInfo
    dependencies,    \* TypeDependencies: ordered_types, module_imports
    module_groups,   \* module -> ModuleTypes, as resolve groups the sorted types
    modules,         \* the modules still to generate
    written,         \* output file -> its lines
    code,            \* module -> the text generate_module gave for it
    outcome,         \* "running", "ok", or how the run failed
    returned,        \* the text convert_str returned
    run,             \* 1 for the first run on this input, 2 for the second
    first_run        \* what the first run ended with

vars == <<config, entry, source_files, pc, next_file, all_structs, all_enums, dependencies,
          module_groups, modules, written, code, outcome, returned, run, first_run>>

NoRun ==
    [outcome |-> "none", ordered_types |-> <<>>, module_groups |-> EmptyMap, written |-> EmptyMap,
     returned |-> <<>>]

OutputStructures == {"Nested", "Flat"}

\* The one unit of convert_str: the text, parsed under the module name root.
AsRoot(files) == <<[files[1] EXCEPT !.rel_path = <<"root">>]>>

\* The calls of the model: convert on every scenario, convert under the Flat
\* structure on the scenarios of several modules, convert_str on the texts.
Calls ==
    {[sc |-> sc, os |-> "Nested", entry |-> "convert"] : sc \in Scenarios}
    \cup {[sc |-> sc, os |-> "Flat", entry |-> "convert"] : sc \in LayoutScenarios}
    \cup {[sc |-> sc, os |-> "Nested", entry |-> "convert_str"] : sc \in TextScenarios}

Init ==
    \E call \in Calls :
        /\ config = [only_annotated |-> call.sc.only_annotated, output_structure |-> call.os]
        /\ entry = call.entry
        /\ source_files = IF call.entry = "convert_str" THEN AsRoot(call.sc.files)
                          ELSE call.sc.files
        /\ returned = <<>>
        /\ pc = "parse"
        /\ next_file = 1
        /\ all_structs = EmptyMap
        /\ all_enums = EmptyMap
        /\ dependencies = NoDependencies
        /\ module_groups = EmptyMap
        /\ modules = {}
        /\ written = EmptyMap
        /\ code = EmptyMap
        /\ outcome = "running"
        /\ run = 1
        /\ first_run = NoRun

\* How a parse that does not return Ok(()) ends the run: a parse error is
\* returned, a panic or an exhausted stack ends the process, and a recursion
\* compiled to a jump never ends.
ParseEnds(status) ==
    IF status = "endless_tail_recursion" THEN {"stack_overflow", "hang"} ELSE {status}

\* The parse loop that goes on to the next file when a file fails.
ParseFile_skips_failed_file ==
    /\ entry = "convert"
    /\ pc = "parse"
    /\ next_file <= Len(source_files)
    /\ \E parser \in {parse_file(TypeParser_new(
                                      calculate_module_path(source_files[next_file].rel_path),
                                      config.only_annotated),
                                  source_files[next_file].content)} :
          IF parser.status # "ok"
          THEN UNCHANGED <<all_structs, all_enums>>
          ELSE /\ all_structs' = extend(all_structs, parser.structs)
               /\ all_enums' = extend(all_enums, parser.enums)
    /\ next_file' = next_file + 1
    /\ UNCHANGED <<config, entry, source_files, pc, outcome, dependencies, module_groups,
                   modules, written, code, returned, run, first_run>>

\* One iteration of the parse loop of convert: a fresh parser for the file, then
\* the merge of what it found.
ParseFile ==
    /\ entry = "convert"
    /\ pc = "parse"
    /\ next_file <= Len(source_files)
    /\ \E parser \in {parse_file(TypeParser_new(
                                      calculate_module_path(source_files[next_file].rel_path),
                                      config.only_annotated),
                                  source_files[next_file].content)} :
          IF parser.status # "ok"
          THEN /\ \E end \in ParseEnds(parser.status) :
                    IF end = "hang"
                    THEN pc' = "hung" /\ UNCHANGED outcome
                    ELSE pc' = "done" /\ outcome' = end
               /\ UNCHANGED <<next_file, all_structs, all_enums>>
          ELSE /\ all_structs' = extend(all_structs, parser.structs)
               /\ all_enums' = extend(all_enums, parser.enums)
               /\ next_file' = next_file + 1
               /\ UNCHANGED <<outcome, pc>>
    /\ UNCHANGED <<config, entry, source_files, dependencies, module_groups, modules, written, code,
                   returned, run, first_run>>

\* resolve and the collection of the modules.  s_order and e_order are the
\* orders in which the two hash maps are iterated.
Resolve ==
    /\ entry = "convert"
    /\ pc = "parse"
    /\ next_file > Len(source_files)
    /\ \E s_order \in Perms(DOMAIN all_structs), e_order \in Perms(DOMAIN all_enums) :
         \E graph \in {resolve_graph(all_structs, all_enums, s_order, e_order)} :
         \E sorted \in {toposort(Len(graph.nodes), graph.edges)} :
            IF ~sorted.ok
            THEN /\ outcome' = "dependency_cycle"
                 /\ pc' = "done"
                 /\ UNCHANGED <<dependencies, module_groups, modules>>
            ELSE \E ordered_types \in {ordered_types_of(graph.nodes, sorted.order)} :
                 /\ dependencies' =
                       [ordered_types |-> ordered_types,
                        module_imports |-> module_imports_of(all_structs, all_enums,
                                                             graph.nodes, graph.edges)]
                 /\ module_groups' =
                       module_groups_of(all_structs, all_enums,
                                        sorted_paths_of(graph.nodes, sorted.order), EmptyMap)
                 /\ modules' = modules_of(all_structs, all_enums, ordered_types)
                 /\ pc' = "generate"
                 /\ UNCHANGED outcome
    /\ UNCHANGED <<config, entry, source_files, next_file, all_structs, all_enums, written, code,
                   returned, run, first_run>>

\* One iteration of the generation loop: the text of one module, written to
\* its file.  The module is the one the HashSet yields next.
GenerateModule ==
    /\ pc = "generate"
    /\ \E module \in modules :
       \E key_order \in Perms(DOMAIN dependencies.module_imports) :
       \E name_order \in Perms(UNION {dependencies.module_imports[m] :
                                        m \in DOMAIN dependencies.module_imports}) :
       \E text \in {generate_module(all_structs, all_enums, module, dependencies,
                                     key_order, name_order)} :
         /\ written' = Put(written, get_output_path(config.output_structure, module), text)
         /\ code' = Put(code, module, text)
         /\ modules' = modules \ {module}
    /\ UNCHANGED <<config, entry, source_files, pc, next_file, all_structs, all_enums,
                   dependencies, module_groups, outcome, returned, run, first_run>>

Finish ==
    /\ pc = "generate"
    /\ modules = {}
    /\ pc' = "done"
    /\ outcome' = "ok"
    /\ UNCHANGED <<config, entry, source_files, next_file, all_structs, all_enums, dependencies,
                   module_groups, modules, written, code, returned, run, first_run>>

\* convert called again on the same input, with an emptied output directory.
Rerun ==
    /\ pc = "done"
    /\ run < MaxRuns
    /\ first_run' = [outcome |-> outcome, ordered_types |-> dependencies.ordered_types,
                     module_groups |-> module_groups, written |-> written,
                     returned |-> returned]
    /\ run' = run + 1
    /\ pc' = "parse"
    /\ next_file' = 1
    /\ all_structs' = EmptyMap
    /\ all_enums' = EmptyMap
    /\ dependencies' = NoDependencies
    /\ module_groups' = EmptyMap
    /\ modules' = {}
    /\ written' = EmptyMap
    /\ code' = EmptyMap
    /\ outcome' = "running"
    /\ returned' = <<>>
    /\ UNCHANGED <<config, entry, source_files>>

\* ZorshGen::convert_str: the text parsed under the module name root, its types
\* resolved, and the text of module root returned.  Nothing is written.
ConvertStr ==
    /\ entry = "convert_str"
    /\ pc = "parse"
    /\ \E parser \in {parse_file(TypeParser_new(<<"root">>, config.only_annotated),
                                  source_files[1].content)} :
         IF parser.status # "ok"
         THEN /\ \E end \in ParseEnds(parser.status) :
                   IF end = "hang"
                   THEN pc' = "hung" /\ UNCHANGED outcome
                   ELSE pc' = "done" /\ outcome' = end
              /\ UNCHANGED <<all_structs, all_enums, dependencies, returned>>
         ELSE /\ all_structs' = parser.structs
              /\ all_enums' = parser.enums
              /\ pc' = "done"
              /\ \E s_order \in Perms(DOMAIN parser.structs), e_order \in Perms(DOMAIN parser.enums) :
                 \E graph \in {resolve_graph(parser.structs, parser.enums, s_order, e_order)} :
                 \E sorted \in {toposort(Len(graph.nodes), graph.edges)} :
                   IF ~sorted.ok
                   THEN /\ outcome' = "dependency_cycle"
                        /\ UNCHANGED <<dependencies, returned>>
                   ELSE \E deps \in {[ordered_types |-> ordered_types_of(graph.nodes, sorted.order),
                                      module_imports |-> module_imports_of(parser.structs, parser.enums,
                                                                           graph.nodes, graph.edges)]} :
                        /\ dependencies' = deps
                        /\ outcome' = "ok"
                        /\ \E key_order \in Perms(DOMAIN deps.module_imports) :
                           \E name_order \in Perms(UNION {deps.module_imports[m] :
                                                            m \in DOMAIN deps.module_imports}) :
                             returned' = generate_module(parser.structs, parser.enums, <<"root">>,
                                                         deps, key_order, name_order)
    /\ UNCHANGED <<config, entry, source_files, next_file, module_groups, modules, written, code,
                   run, first_run>>

Next == ParseFile \/ Resolve \/ GenerateModule \/ Finish \/ Rerun \/ ConvertStr

Spec == Init /\ [][Next]_vars

\* ------------------------------------------------------- vocabulary of the claims
Declared == (DOMAIN all_structs) \cup (DOMAIN all_enums)

\* The paths a TypeKind references, directly or inside any depth of Vec,
\* Option and array wrappers or as key or value of a HashMap.
RECURSIVE ReferencedPaths(_)
ReferencedPaths(tk) ==
    CASE tk.kind \in {"Struct", "Enum"} -> {tk.path}
      [] tk.kind \in {"Vec", "Option", "Array"} -> ReferencedPaths(tk.inner)
      [] tk.kind = "HashMap" -> ReferencedPaths(tk.key) \cup ReferencedPaths(tk.value)
      [] OTHER -> {}

FieldsPaths(fields) == UNION {ReferencedPaths(fields[i].type_kind) : i \in 1..Len(fields)}

\* The declared types a declared type references.
RefsOf(path) ==
    Declared \cap
    (IF path \in DOMAIN all_structs THEN FieldsPaths(all_structs[path].fields)
     ELSE UNION {FieldsPaths(all_enums[path].variants[v].fields.list) :
                    v \in 1..Len(all_enums[path].variants)})

RECURSIVE ReachableIn(_, _)
ReachableIn(S, n) ==
    IF n = 0 THEN S ELSE ReachableIn(S \cup UNION {RefsOf(a) : a \in S}, n - 1)

HasRefCycle == \E a \in Declared : a \in ReachableIn(RefsOf(a), Cardinality(Declared))

AllParsed ==
    \/ next_file > Len(source_files)
    \/ entry = "convert_str" /\ pc = "done" /\ (all_structs # EmptyMap \/ all_enums # EmptyMap)

Resolved == pc = "generate" \/ outcome = "ok"

Pos(seq, x) == CHOOSE i \in 1..Len(seq) : seq[i] = x

\* lines holds block as a run of consecutive lines.
ContainsBlock(lines, block) ==
    \E i \in 0..(Len(lines) - Len(block)) : \A j \in 1..Len(block) : lines[i + j] = block[j]

FileModule(f) == calculate_module_path(f.rel_path)

OutputOf(module_path) == get_output_path(config.output_structure, module_path)

\* The text emitted for a module: the file convert wrote for it, or what
\* convert_str returned.
TextOf(module_path) == IF entry = "convert_str" THEN returned ELSE code[module_path]

\* The texts emitted.
Texts == IF entry = "convert_str" THEN {returned} ELSE {code[m] : m \in DOMAIN code}

\* The names a type expression of the source mentions.
RECURSIVE MentionedNames(_)
MentionedNames(ty) ==
    IF ty.k = "path"
    THEN {Last(ty.segs)} \cup UNION {MentionedNames(ty.args[i]) : i \in 1..Len(ty.args)}
    ELSE IF ty.k = "array" THEN MentionedNames(ty.elem)
    ELSE {}

\* The type expressions of the fields of a struct or enum item.
ItemFieldTypes(item) ==
    IF item.item = "struct" THEN {item.fields.list[i].ty : i \in 1..Len(item.fields.list)}
    ELSE IF item.item = "enum"
    THEN UNION {{item.variants[v].fields.list[i].ty : i \in 1..Len(item.variants[v].fields.list)}
                : v \in 1..Len(item.variants)}
    ELSE {}

DeclItems(f) == {it \in Range(f.content.items) : it.item \in {"struct", "enum"}}

\* ------------------------------------------------------- C1
\* C1: after a successful resolve, whenever declared type A references declared
\* type B (directly or inside Vec/Option/array/HashMap wrappers), B comes before
\* A in the resolver's order.
C1_DependencyPrecedesDependent ==
    Resolved =>
        \A a \in Declared : \A b \in RefsOf(a) :
            a # b =>
                /\ Pos(dependencies.ordered_types, b) < Pos(dependencies.ordered_types, a)
                /\ \A m \in DOMAIN module_groups :
                      {a, b} \subseteq Range(module_groups[m].type_paths)
                      => Pos(module_groups[m].type_paths, b) < Pos(module_groups[m].type_paths, a)

\* ------------------------------------------------------- C2
\* C2: after a successful run, when a declaration of module m1 references a
\* type B declared in the file of another module m2, the import manifest holds
\* B's name and the text of m1 holds an import statement naming BSchema from
\* m2's file.
C2_CrossModuleImport ==
    outcome = "ok" =>
        \A f1 \in Range(source_files) : \A f2 \in Range(source_files) :
            \A a \in DeclItems(f1) : \A b \in DeclItems(f2) :
                (/\ FileModule(f1) # FileModule(f2)
                 /\ \E ty \in ItemFieldTypes(a) : b.ident \in MentionedNames(ty))
                => /\ \E m \in DOMAIN dependencies.module_imports :
                        b.ident \in dependencies.module_imports[m]
                   /\ \E i \in 1..Len(TextOf(FileModule(f1))) :
                        TextOf(FileModule(f1))[i] \in
                           {import_line(FileModule(f2), <<b.ident>>),
                            import_line(<<Last(FileModule(f2))>>, <<b.ident>>)}

\* ------------------------------------------------------- C3
\* C3: once every file is parsed, a cycle in the reference graph of the merged
\* types (of any length, a self-reference included) means that the run never
\* generates or writes a module and ends with the dependency-cycle error.
C3_CycleRejected ==
    (AllParsed /\ HasRefCycle) =>
        /\ pc # "generate"
        /\ written = EmptyMap
        /\ returned = <<>>
        /\ pc = "done" => outcome = "dependency_cycle"

C3_Witness ==
    /\ outcome = "dependency_cycle"
    /\ written = EmptyMap
    /\ \E a \in Declared : \E b \in RefsOf(a) : a # b /\ a \in RefsOf(b)

\* ------------------------------------------------------- C4
\* C4: the second run on the same input ends as the first did, with the same
\* resolver order, overall and inside every module, and the same text in every
\* output file.
C4_Deterministic ==
    (run = 2 /\ pc = "done") =>
        /\ outcome = first_run.outcome
        /\ dependencies.ordered_types = first_run.ordered_types
        /\ module_groups = first_run.module_groups
        /\ written = first_run.written
        /\ returned = first_run.returned

\* ------------------------------------------------------- C5
\* The alias table of a unit as its declarations state it: every `type` item of
\* the file, wherever it stands.
AliasTableOf(items) ==
    [n \in {items[i].ident : i \in {j \in 1..Len(items) : items[j].item = "type"}} |->
        items[CHOOSE i \in 1..Len(items) :
                 /\ items[i].item = "type" /\ items[i].ident = n
                 /\ \A j \in (i + 1)..Len(items) : ~(items[j].item = "type" /\ items[j].ident = n)].ty]

\* A type expression with every alias name replaced by what it stands for.
RECURSIVE ExpandAliases(_, _, _)
ExpandAliases(ty, aliases, fuel) ==
    IF fuel = 0 THEN ty
    ELSE IF ty.k = "path" THEN
        IF Last(ty.segs) \in DOMAIN aliases
        THEN ExpandAliases(aliases[Last(ty.segs)], aliases, fuel - 1)
        ELSE [ty EXCEPT !.args = [i \in 1..Len(ty.args) |->
                                     ExpandAliases(ty.args[i], aliases, fuel - 1)]]
    ELSE IF ty.k = "array" THEN [ty EXCEPT !.elem = ExpandAliases(ty.elem, aliases, fuel - 1)]
    ELSE ty

UsesAlias(item, aliases) ==
    \E ty \in ItemFieldTypes(item) : MentionedNames(ty) \cap DOMAIN aliases # {}

\* The struct declared directly with the fully expanded field types.
ExpandedStruct(item, aliases) ==
    [item EXCEPT !.fields.list =
        [i \in 1..Len(item.fields.list) |->
            [item.fields.list[i] EXCEPT !.ty = ExpandAliases(@, aliases, StackLimit + 1)]]]

\* The binding of a struct item parsed in a unit that declares no alias.
DirectBinding(f, item) ==
    generate_struct(
        visit_item_struct(TypeParser_new(FileModule(f), config.only_annotated), item)
            .structs[FileModule(f) \o <<item.ident>>])

\* C5: after a successful run, the binding of a struct whose field types use
\* aliases is the binding of the same struct declared with the expanded types,
\* wherever the aliases stand in the file.
C5_AliasTransparency ==
    outcome = "ok" =>
        \A f \in Range(source_files) :
            \A item \in {it \in Range(f.content.items) :
                           /\ it.item = "struct" /\ it.fields.style = "named"
                           /\ should_process_item([only_annotated |-> config.only_annotated], it.attrs)
                           /\ UsesAlias(it, AliasTableOf(f.content.items))} :
                ContainsBlock(TextOf(FileModule(f)),
                              DirectBinding(f, ExpandedStruct(item, AliasTableOf(f.content.items))))

\* An alias chain used by a struct declared before the aliases was expanded.
C5_Witness ==
    /\ outcome = "ok"
    /\ \E f \in Range(source_files) :
         /\ Len(f.content.items) = 4
         /\ f.content.items[1].item = "struct"
         /\ f.content.items[1].fields.list[1].ty = Ty("Registry")
         /\ f.content.items[3] = ItemType("Registry", TyGen("Vec", <<Ty("AccountId")>>))
         /\ f.content.items[4].item = "type"
         /\ ContainsBlock(TextOf(FileModule(f)),
                          <<"    f: b.vec(b.array(b.u8(), 32)),">>)

\* ------------------------------------------------------- C6
\* Expanding ty meets an alias again before that alias has resolved.
RECURSIVE RevisitsAlias(_, _, _)
RevisitsAlias(ty, aliases, visiting) ==
    IF ty.k = "path" THEN
        IF Last(ty.segs) \in DOMAIN aliases
        THEN \/ Last(ty.segs) \in visiting
             \/ RevisitsAlias(aliases[Last(ty.segs)], aliases, visiting \cup {Last(ty.segs)})
        ELSE \E i \in 1..Len(ty.args) : RevisitsAlias(ty.args[i], aliases, visiting)
    ELSE IF ty.k = "array" THEN RevisitsAlias(ty.elem, aliases, visiting)
    ELSE FALSE

UsesAliasCycle ==
    \E f \in Range(source_files) : \E item \in DeclItems(f) :
        /\ should_process_item([only_annotated |-> config.only_annotated], item.attrs)
        /\ \E ty \in ItemFieldTypes(item) : RevisitsAlias(ty, AliasTableOf(f.content.items), {})

\* C6: the parse of a field type always returns, and when it meets an alias
\* cycle the run ends with the alias-cycle error.
C6_AliasCycleIsAnError ==
    /\ pc # "hung"
    /\ (pc = "done" /\ UsesAliasCycle) => outcome = "alias_cycle"

\* ------------------------------------------------------- C7
\* The attributes hold a derive list that names BorshSerialize or
\* BorshDeserialize.
ListsBorshDerive(attrs) ==
    \E i \in 1..Len(attrs) :
        /\ attrs[i].path = "derive" /\ attrs[i].meta = "List"
        /\ \E j \in 1..Len(attrs[i].tokens) :
              attrs[i].tokens[j] \in {"BorshSerialize", "BorshDeserialize"}

\* Some output module binds <name>Schema.
HasBinding(name) ==
    \E text \in Texts : \E i \in 1..Len(text) :
        text[i] \in {"export const " \o name \o "Schema = b.struct({",
                             "export const " \o name \o "Schema = b.enum({"}

\* C7: after a successful run, a struct or enum declaration has a schema
\* binding in the output exactly when only_annotated is false or the
\* declaration carries a derive attribute listing BorshSerialize or
\* BorshDeserialize.
C7_Filtering ==
    outcome = "ok" =>
        \A f \in Range(source_files) : \A item \in DeclItems(f) :
            HasBinding(item.ident) <=> (~config.only_annotated \/ ListsBorshDerive(item.attrs))

\* ------------------------------------------------------- C8
\* The schema expression of a field type of file f, read outside any alias.
SchemaOf(f, ty) ==
    type_to_zorsh(parse_type(TypeParser_new(FileModule(f), config.only_annotated), ty, 0))

EntryLines(f, list, indent) ==
    [i \in 1..Len(list) |-> <<indent \o list[i].ident \o ": " \o SchemaOf(f, list[i].ty)>>]

NestedRecord(f, v) ==
    <<"    " \o v.ident \o ": " \o "b.struct({">>
    \o join_blocks(EntryLines(f, v.fields.list, "        "))
    \o <<"    })">>

\* The variant mapping as the claim words it: unit for a variant of no field.
VariantByFieldCount(f, v) ==
    IF Len(v.fields.list) = 0 THEN <<"    " \o v.ident \o ": " \o "b.unit()">>
    ELSE IF Len(v.fields.list) = 1 /\ v.fields.style = "unnamed"
    THEN <<"    " \o v.ident \o ": " \o SchemaOf(f, v.fields.list[1].ty)>>
    ELSE NestedRecord(f, v)

\* The variant mapping with unit kept for the variants declared without a
\* field list: an empty list `V {}` or `V()` is a nested record of no entry.
VariantByFieldList(f, v) ==
    IF v.fields.style = "unit" THEN <<"    " \o v.ident \o ": " \o "b.unit()">>
    ELSE IF Len(v.fields.list) = 1 /\ v.fields.style = "unnamed"
    THEN <<"    " \o v.ident \o ": " \o SchemaOf(f, v.fields.list[1].ty)>>
    ELSE NestedRecord(f, v)

EnumBinding(item, blocks) ==
    <<"export const " \o item.ident \o "Schema = b.enum({">> \o join_blocks(blocks) \o <<"});">>

IncludedItems(f, kind) ==
    {it \in DeclItems(f) :
        /\ it.item = kind
        /\ should_process_item([only_annotated |-> config.only_annotated], it.attrs)}

\* The included declarations of the source, each with its place and its
\* fully-qualified path.
IncludedDecls ==
    {d \in UNION {{[file |-> fi, item |-> ii,
                    path |-> FileModule(source_files[fi]) \o <<source_files[fi].content.items[ii].ident>>] :
                      ii \in {j \in 1..Len(source_files[fi].content.items) :
                                source_files[fi].content.items[j].item \in {"struct", "enum"}}} :
                  fi \in 1..Len(source_files)} :
        should_process_item([only_annotated |-> config.only_annotated],
                            source_files[d.file].content.items[d.item].attrs)}

\* The declaration is the only included one of its path.
DeclaredOnce(f, item) ==
    Cardinality({d \in IncludedDecls : d.path = FileModule(f) \o <<item.ident>>}) = 1

\* C8 as stated: the binding of every included enum, the only declaration of
\* its path, lists its variants in
\* declaration order, a variant of no field as b.unit(), a variant of one
\* unnamed field as that field's schema, every other variant as a nested record.
C8_VariantShapes_Original ==
    outcome = "ok" =>
        \A f \in Range(source_files) : \A item \in IncludedItems(f, "enum") :
            DeclaredOnce(f, item) =>
            ContainsBlock(TextOf(FileModule(f)),
                          EnumBinding(item, [i \in 1..Len(item.variants) |->
                                                VariantByFieldCount(f, item.variants[i])]))

\* C8 amended: as above, with b.unit() for the variants declared without a
\* field list only; a variant with an empty field list is a nested record with
\* no entry.
C8_VariantShapes ==
    outcome = "ok" =>
        \A f \in Range(source_files) : \A item \in IncludedItems(f, "enum") :
            DeclaredOnce(f, item) =>
            ContainsBlock(TextOf(FileModule(f)),
                          EnumBinding(item, [i \in 1..Len(item.variants) |->
                                                VariantByFieldList(f, item.variants[i])]))

\* An enum of a single-named-field variant followed by an empty-list variant
\* was emitted as two nested records.
C8_Witness ==
    /\ outcome = "ok"
    /\ \E f \in Range(source_files) : \E item \in IncludedItems(f, "enum") :
         /\ item.variants[1].fields = NamedFields(<<Field("timestamp", Ty("u64"))>>)
         /\ item.variants[2].fields = NamedFields(<<>>)
         /\ ContainsBlock(TextOf(FileModule(f)),
                          <<"    First: b.struct({", "        timestamp: b.u64()", "    }),",
                            "    Second: b.struct({", "", "    })">>)

\* ------------------------------------------------------- C9
StructBinding(f, item) ==
    <<"export const " \o item.ident \o "Schema = b.struct({">>
    \o join_blocks(EntryLines(f, item.fields.list, "    "))
    \o <<"});">>

\* C9: after a successful run, the output of the module of every included
\* struct declaration S holds the binding SSchema with one entry per declared
\* field, in declaration order, each the field's name and the schema of its
\* type; a struct of no field has an empty record.
C9_StructBinding ==
    outcome = "ok" =>
        \A f \in Range(source_files) : \A item \in IncludedItems(f, "struct") :
            (\A ty \in ItemFieldTypes(item) : MentionedNames(ty) \cap DOMAIN AliasTableOf(f.content.items) = {})
            => ContainsBlock(TextOf(FileModule(f)), StructBinding(f, item))

\* ------------------------------------------------------- C10
\* The schema expression of a TypeKind by the rules of the mapping.
RECURSIVE ExpectedSchema(_)
ExpectedSchema(tk) ==
    CASE tk.kind = "Primitive" -> "b." \o tk.name \o "()"
      [] tk.kind = "String" -> "b.string()"
      [] tk.kind \in {"Struct", "Enum"} -> tk.name \o "Schema"
      [] tk.kind = "Vec" -> "b.vec(" \o ExpectedSchema(tk.inner) \o ")"
      [] tk.kind = "HashMap" ->
            "b.hashMap(" \o ExpectedSchema(tk.key) \o ", " \o ExpectedSchema(tk.value) \o ")"
      [] tk.kind = "Option" -> "b.option(" \o ExpectedSchema(tk.inner) \o ")"
      [] tk.kind = "Array" ->
            "b.array(" \o ExpectedSchema(tk.inner) \o ", " \o ToString(tk.size) \o ")"

\* The lines of the text of a module that bind a name at the indent.
HasEntry(lines, indent, name, schema) ==
    \E i \in 1..Len(lines) :
        lines[i] \in {indent \o name \o ": " \o schema, indent \o name \o ": " \o schema \o ","}

\* C10: after a successful run, every field of every merged struct, and every
\* field of a nested-record variant of every merged enum, is emitted in its
\* module's text with the schema expression the structural recursion gives for
\* its TypeKind, a reference as <Name>Schema.
C10_TypeToSchema ==
    outcome = "ok" =>
        /\ \A p \in DOMAIN all_structs :
             \A i \in 1..Len(all_structs[p].fields) :
                HasEntry(TextOf(all_structs[p].module_path), "    ",
                         all_structs[p].fields[i].name,
                         ExpectedSchema(all_structs[p].fields[i].type_kind))
        /\ \A p \in DOMAIN all_enums :
             \A v \in 1..Len(all_enums[p].variants) :
                LET fl == all_enums[p].variants[v].fields.list IN
                IF Len(fl) = 1 /\ fl[1].name = ""
                THEN HasEntry(TextOf(all_enums[p].module_path), "    ",
                              all_enums[p].variants[v].name, ExpectedSchema(fl[1].type_kind))
                ELSE \A i \in 1..Len(fl) :
                        HasEntry(TextOf(all_enums[p].module_path), "        ",
                                 fl[i].name, ExpectedSchema(fl[i].type_kind))

\* A field two wrappers deep around a struct reference was emitted with the
\* reference by name.
C10_Witness ==
    /\ outcome = "ok"
    /\ \E p \in DOMAIN all_structs :
         /\ Len(all_structs[p].fields) >= 1
         /\ all_structs[p].fields[1].type_kind = TkOption(TkVec(TkStruct("B", <<"lib", "B">>)))
         /\ HasEntry(TextOf(all_structs[p].module_path), "    ", "x",
                     "b.option(b.vec(BSchema))")

\* ------------------------------------------------------- C11
\* The line of a text that opens the binding of a name.
BindingLine(lines, name) ==
    CHOOSE i \in 1..Len(lines) :
        lines[i] \in {"export const " \o name \o "Schema = b.struct({",
                      "export const " \o name \o "Schema = b.enum({"}

ModuleOfDecl(path) ==
    IF path \in DOMAIN all_structs THEN all_structs[path].module_path
    ELSE all_enums[path].module_path

\* C11: after a successful run, when declared type A references declared type
\* B of the same module, the binding of B opens before the binding of A in the
\* text of that module.
C11_EmissionOrder ==
    outcome = "ok" =>
        \A a \in Declared : \A b \in RefsOf(a) :
            (a # b /\ ModuleOfDecl(a) = ModuleOfDecl(b)) =>
                BindingLine(TextOf(ModuleOfDecl(a)), Last(b))
                    < BindingLine(TextOf(ModuleOfDecl(a)), Last(a))

\* ------------------------------------------------------- C12
\* The sequences without repetition over a set of names.
RECURSIVE Arrangements(_)
Arrangements(S) ==
    {<<>>} \cup UNION {{<<x>> \o rest : rest \in Arrangements(S \ {x})} : x \in S}

DeclaredNames == {Last(p) : p \in Declared}

DeclaredModules == {ModuleOfDecl(p) : p \in Declared}

\* The names that the text imports from the file of module m2.
ImportsFrom(lines, m2) ==
    UNION {Range(names) : names \in {n \in Arrangements(DeclaredNames) :
                                        n # <<>> /\ \E i \in 1..Len(lines) :
                                                       lines[i] = import_line(m2, n)}}

\* C12: after a successful run, the text of a module never imports from the
\* file of that module, and every name it imports from another module's file
\* is the name of a type of that module referenced from a type of a different
\* module: a same-module reference gives no import statement.
C12_NoSelfImport ==
    outcome = "ok" =>
        \A m \in DeclaredModules :
            /\ ImportsFrom(TextOf(m), m) = {}
            /\ \A m2 \in DeclaredModules : \A n \in ImportsFrom(TextOf(m), m2) :
                  \E a \in Declared : \E b \in RefsOf(a) :
                      /\ Last(b) = n /\ ModuleOfDecl(b) = m2 /\ ModuleOfDecl(a) # m2

\* A module whose types reference each other and a type of another module:
\* its text imports from the other module's file and from nothing else.
C12_Witness ==
    /\ outcome = "ok"
    /\ \E a \in Declared : \E b \in RefsOf(a) :
         /\ a # b /\ ModuleOfDecl(a) = <<"a">> /\ ModuleOfDecl(b) = <<"a">>
    /\ ImportsFrom(TextOf(<<"a">>), <<"b">>) = {"B"}
    /\ TextOf(<<"a">>)[3] = ""

\* ------------------------------------------------------- C13
HasDuplicatePath ==
    \E d1 \in IncludedDecls : \E d2 \in IncludedDecls : d1 # d2 /\ d1.path = d2.path

\* C13: a run over source in which two included declarations share a
\* fully-qualified path writes nothing and ends with the duplicate-type error.
C13_DuplicateDetected ==
    HasDuplicatePath =>
        /\ written = EmptyMap
        /\ pc = "done" => outcome = "duplicate_type"

\* ------------------------------------------------------- C14
\* A type expression outside the supported shapes, at any depth.
RECURSIVE IsUnsupported(_)
IsUnsupported(ty) ==
    IF ty.k = "path" THEN
        \/ Last(ty.segs) \in {"Vec", "Option"} /\ Len(ty.args) < 1
        \/ Last(ty.segs) = "HashMap" /\ Len(ty.args) < 2
        \/ \E i \in 1..Len(ty.args) : IsUnsupported(ty.args[i])
    ELSE IF ty.k = "array" THEN ~ty.lit \/ IsUnsupported(ty.elem)
    ELSE TRUE

\* An included declaration reads a field of an unsupported type; the fields of
\* a tuple struct are not read.
ReadsUnsupportedType ==
    \E d \in IncludedDecls :
        LET item == source_files[d.file].content.items[d.item] IN
        /\ item.item = "struct" => item.fields.style = "named"
        /\ \E ty \in ItemFieldTypes(item) : IsUnsupported(ty)

\* C14: a run over source in which an included declaration has a field of an
\* unsupported type never panics, writes nothing, and ends with the
\* unsupported-type error.
C14_UnsupportedTypeIsAnError ==
    /\ outcome # "panic"
    /\ ReadsUnsupportedType =>
          /\ written = EmptyMap
          /\ pc = "done" => outcome = "unsupported_type"

\* ------------------------------------------------------- C15
\* The parser of the file the parse loop stands at, after its parse_file.
ParserAtNextFile ==
    parse_file(TypeParser_new(FileModule(source_files[next_file]), config.only_annotated),
               source_files[next_file].content)

\* C15: when the run has ended at a file whose text does not parse, it has
\* ended with the parse error, that file's parser has registered no alias,
\* struct or enum, and nothing was resolved or written.
C15_ParseErrorIsFatal ==
    (/\ pc = "done" /\ next_file <= Len(source_files)
     /\ ~source_files[next_file].content.syntax_ok)
    => /\ outcome = "parse_error"
       /\ ParserAtNextFile.structs = EmptyMap
       /\ ParserAtNextFile.enums = EmptyMap
       /\ ParserAtNextFile.type_aliases = EmptyMap
       /\ dependencies = NoDependencies
       /\ module_groups = EmptyMap
       /\ written = EmptyMap
       /\ returned = <<>>

\* The second file did not parse although its text holds a declaration; the
\* first file's struct had been merged.
C15_Witness ==
    /\ outcome = "parse_error"
    /\ next_file = 2
    /\ source_files[2].content.items # <<>>
    /\ DOMAIN all_structs = {<<"a", "A">>}
    /\ written = EmptyMap

\* ------------------------------------------------------- C16
\* Every path a field of a merged type names, declared or not.
AllReferenced ==
    UNION {IF p \in DOMAIN all_structs THEN FieldsPaths(all_structs[p].fields)
           ELSE UNION {FieldsPaths(all_enums[p].variants[v].fields.list) :
                          v \in 1..Len(all_enums[p].variants)} : p \in Declared}

\* The import statements a text over these types could hold: from the module
\* of any declared or referenced path, of any of their names in any order.
ImportStatements ==
    {import_line(m, n) :
        m \in {Front(p) : p \in Declared \cup AllReferenced},
        n \in Arrangements({Last(p) : p \in Declared \cup AllReferenced}) \ {<<>>}}

\* C16: a successful convert_str has registered every type under the module
\* root, and the one text it returns holds a binding for every included
\* declaration of the input, opens with the base import of b followed by the
\* blank line that closes the imports, and holds no import statement from any
\* module, whatever paths the fields name.
C16_SingleText ==
    (entry = "convert_str" /\ outcome = "ok") =>
        /\ \A p \in Declared : Front(p) = <<"root">> /\ ModuleOfDecl(p) = <<"root">>
        /\ \A item \in DeclItems(source_files[1]) :
              item \in IncludedItems(source_files[1], item.item) =>
                 \E i \in 1..Len(returned) :
                    returned[i] \in {"export const " \o item.ident \o "Schema = b.struct({",
                                     "export const " \o item.ident \o "Schema = b.enum({"}
        /\ Len(returned) >= 2
        /\ returned[1] = "import { b } from '@zorsh/zorsh';"
        /\ returned[2] = ""
        /\ \A i \in 1..Len(returned) : returned[i] \notin ImportStatements

\* A text whose struct A has a field of the type other::Foo was converted: the
\* entry names FooSchema, and A and B have their bindings.
C16_Witness ==
    /\ entry = "convert_str"
    /\ outcome = "ok"
    /\ <<"other", "Foo">> \in AllReferenced
    /\ HasEntry(returned, "    ", "x", "FooSchema")
    /\ "export const ASchema = b.struct({" \in Range(returned)
    /\ "export const BSchema = b.struct({" \in Range(returned)

\* ------------------------------------------------------- C17
\* The names a text over this source could export: those of its declarations,
\* included or not, and those its fields reference.
SourceNames ==
    UNION {{it.ident : it \in DeclItems(f)} : f \in Range(source_files)}
    \cup {Last(p) : p \in AllReferenced}

\* The names a text exports where it declares them.
ExportedConsts(lines) ==
    {n \in SourceNames :
        \E i \in 1..Len(lines) :
            lines[i] \in {"export const " \o n \o "Schema = b.struct({",
                          "export const " \o n \o "Schema = b.enum({"}}

\* The names of the export list that closes a text.
ExportList(lines) ==
    {n \in SourceNames :
        \E i \in 1..Len(lines) :
            /\ lines[i] \in {"    " \o n \o "Schema", "    " \o n \o "Schema,"}
            /\ \E j \in 1..(i - 1) : lines[j] = "export {"
            /\ lines[Len(lines)] = "};"}

\* The included declarations of the files of a module, by name.
IncludedNamesOf(m) ==
    UNION {{it.ident : it \in IncludedItems(f, "struct") \cup IncludedItems(f, "enum")} :
              f \in {g \in Range(source_files) : FileModule(g) = m}}

\* C17: after a successful run, the text of every module with a merged type
\* exports, both where it declares them and in its export list, exactly the
\* names of the included declarations of that module's files: none of
\* another module, every one of its own.
C17_Exports ==
    outcome = "ok" =>
        \A m \in DeclaredModules :
            /\ ExportedConsts(TextOf(m)) = IncludedNamesOf(m)
            /\ ExportList(TextOf(m)) = IncludedNamesOf(m)

\* Three files of three modules, the struct of one of them not included: the
\* text of the module of User exports User alone.
C17_Witness ==
    /\ outcome = "ok"
    /\ entry = "convert"
    /\ DOMAIN all_structs = {<<"src", "models", "user", "User">>, <<"src", "models", "Meta">>}
    /\ "Post" \in SourceNames
    /\ ExportList(TextOf(<<"src", "models", "user">>)) = {"User"}
    /\ ExportList(TextOf(<<"src", "models">>)) = {"Meta"}

\* ------------------------------------------------------- C18
\* The modules of the files that hold an included declaration.
ModulesWithIncluded ==
    {FileModule(f) : f \in {g \in Range(source_files) :
                              IncludedItems(g, "struct") \cup IncludedItems(g, "enum") # {}}}

\* The file of a module as stated: the module path with its separators
\* replaced, and the extension.
StatedPath(module_path) ==
    ReplaceColons(module_path, IF config.output_structure = "Nested" THEN "/" ELSE "_")
    \o ".ts"

\* C18: after a successful convert, every module of an included declaration
\* has its own file, named by its module path with :: replaced by / under
\* Nested and by _ under Flat, holding the text generated for that module; no
\* other file is written, so a module of no included declaration has none.
C18_OutputLayout ==
    (entry = "convert" /\ outcome = "ok") =>
        /\ DOMAIN written = {StatedPath(m) : m \in ModulesWithIncluded}
        /\ Cardinality(DOMAIN written) = Cardinality(ModulesWithIncluded)
        /\ \A m \in ModulesWithIncluded :
              StatedPath(m) \in DOMAIN written => written[StatedPath(m)] = code[m]

\* ------------------------------------------------------- C19
\* How many times a sequence holds a value.
Occurrences(seq, x) == Cardinality({i \in 1..Len(seq) : seq[i] = x})

\* The paths the resolver put out for a module, in their order.
TypePathsOf(m) == IF m \in DOMAIN module_groups THEN module_groups[m].type_paths ELSE <<>>

\* C19: once convert has resolved the merged types, every path of the merged
\* struct and enum maps is in the resolver's output exactly once, in the
\* group of its module, and the output holds no path that is not declared.
C19_TotalOrder ==
    (entry = "convert" /\ Resolved) =>
        /\ \A p \in Declared :
              /\ Occurrences(TypePathsOf(ModuleOfDecl(p)), p) = 1
              /\ \A m \in DOMAIN module_groups :
                    m # ModuleOfDecl(p) => Occurrences(module_groups[m].type_paths, p) = 0
        /\ \A m \in DOMAIN module_groups :
              \A i \in 1..Len(module_groups[m].type_paths) :
                 module_groups[m].type_paths[i] \in Declared

\* ------------------------------------------------------- C20
\* The place of a position of the run in the order of the stages: the parse
\* loop with its merges, the generation loop after the resolver, the end.
StageOf(p) == CASE p = "parse" -> 1 [] p = "generate" -> 2 [] OTHER -> 3

Failures ==
    {"parse_error", "panic", "stack_overflow", "dependency_cycle", "duplicate_type",
     "unsupported_type", "alias_cycle"}

\* Every file of the source is one the parser gets through.
EveryUnitParses ==
    /\ \A f \in Range(source_files) : f.content.syntax_ok
    /\ ~ReadsUnsupportedType
    /\ ~UsesAliasCycle

\* One step of a run of convert.
StageStep ==
    (entry = "convert" /\ run' = run) =>
        /\ StageOf(pc') >= StageOf(pc)
        /\ next_file' \in {next_file, next_file + 1}
        /\ (pc = "parse" /\ pc' = "generate") => next_file > Len(source_files)
        /\ pc # "parse" =>
              /\ UNCHANGED <<next_file, all_structs, all_enums, dependencies, module_groups>>
        /\ StageOf(pc) = 3 => UNCHANGED vars
        /\ outcome \in Failures => outcome' = outcome
        /\ outcome' \in Failures => pc' = "done" /\ written' = EmptyMap /\ modules' = {}
        /\ written' # written =>
              /\ pc = "generate"
              /\ outcome = "running"
              /\ next_file > Len(source_files)
              /\ EveryUnitParses
              /\ ~HasRefCycle
              /\ module_groups # EmptyMap

LexOrder ==
    <<"", "A", "Annotated", "B", "C", "E", "Event", "M", "Meta", "Models", "P", "Post", "Q",
      "S", "Status", "T", "Types", "U", "User", "a", "a_b", "b", "c", "lib", "models", "post",
      "root", "src", "types", "user">>

LexRank(s) == CHOOSE i \in 1..Len(LexOrder) : LexOrder[i] = s

\* p is before q in the lexicographic order of the paths, segment by segment.
RECURSIVE LexLess(_, _)
LexLess(p, q) ==
    IF q = <<>> THEN FALSE
    ELSE IF p = <<>> THEN TRUE
    ELSE IF Head(p) = Head(q) THEN LexLess(Tail(p), Tail(q))
    ELSE LexRank(Head(p)) < LexRank(Head(q))

\* A declared type under no ordering constraint: it references no declared
\* type and no declared type references it.
Unconstrained(a) == RefsOf(a) = {} /\ \A b \in Declared : a \notin RefsOf(b)

\* C21: once convert has resolved the merged types, two types of one module
\* that are under no ordering constraint, and so are ready together from the
\* start, are in the resolver's output in the lexicographic order of their
\* fully-qualified paths.
C21_LexicographicTieBreak ==
    (entry = "convert" /\ Resolved) =>
        \A a \in Declared : \A b \in Declared :
            (/\ Unconstrained(a) /\ Unconstrained(b)
             /\ ModuleOfDecl(a) = ModuleOfDecl(b)
             /\ LexLess(a, b))
            => Pos(TypePathsOf(ModuleOfDecl(a)), a) < Pos(TypePathsOf(ModuleOfDecl(a)), b)

\* ------------------------------------------------------- C22
\* The parser of a file after its parse_file.
ParserOf(f) ==
    parse_file(TypeParser_new(FileModule(f), config.only_annotated), f.content)

\* The files the run has parsed.
ParsedFiles ==
    IF entry = "convert_str"
    THEN IF pc = "done" /\ outcome \in {"ok", "dependency_cycle"}
         THEN {source_files[1]} ELSE {}
    ELSE {source_files[i] : i \in 1..(next_file - 1)}

\* The type references of an alias-free type expression, left to right: the
\* paths whose last name is no primitive, String, Vec, HashMap or Option.
RECURSIVE LeafRefs(_)
LeafRefs(ty) ==
    IF ty.k = "path" THEN
        IF Last(ty.segs) \in Primitives \cup {"String"} THEN <<>>
        ELSE IF Last(ty.segs) \in {"Vec", "Option"} THEN LeafRefs(ty.args[1])
        ELSE IF Last(ty.segs) = "HashMap" THEN LeafRefs(ty.args[1]) \o LeafRefs(ty.args[2])
        ELSE <<ty.segs>>
    ELSE IF ty.k = "array" THEN LeafRefs(ty.elem)
    ELSE <<>>

\* The references of a TypeKind, left to right.
RECURSIVE LeafKinds(_)
LeafKinds(tk) ==
    CASE tk.kind \in {"Struct", "Enum"} -> <<tk>>
      [] tk.kind \in {"Vec", "Option", "Array"} -> LeafKinds(tk.inner)
      [] tk.kind = "HashMap" -> LeafKinds(tk.key) \o LeafKinds(tk.value)
      [] OTHER -> <<>>

RECURSIVE Flatten(_)
Flatten(seqs) == IF seqs = <<>> THEN <<>> ELSE Head(seqs) \o Flatten(Tail(seqs))

\* The field types an item's visit reads, in order.
TypesRead(item) ==
    IF item.item = "struct"
    THEN [i \in 1..Len(item.fields.list) |-> item.fields.list[i].ty]
    ELSE Flatten([v \in 1..Len(item.variants) |->
                    [i \in 1..Len(item.variants[v].fields.list) |->
                        item.variants[v].fields.list[i].ty]])

\* The TypeKinds a parser holds for an item, in the same order.
KindsHeld(parser, f, item) ==
    IF item.item = "struct"
    THEN LET fields == parser.structs[FileModule(f) \o <<item.ident>>].fields
         IN [i \in 1..Len(fields) |-> fields[i].type_kind]
    ELSE LET variants == parser.enums[FileModule(f) \o <<item.ident>>].variants
         IN Flatten([v \in 1..Len(variants) |->
                       [i \in 1..Len(variants[v].fields.list) |->
                           variants[v].fields.list[i].type_kind]])

\* The module a reference names: the segments before the last one without a
\* leading super, or the module of the file.
ReferenceModule(f, segs) ==
    IF Len(segs) > 1
    THEN IF Head(segs) = "super" THEN Tail(Front(segs)) ELSE Front(segs)
    ELSE FileModule(f)

QualifiedPath(module_path, name) ==
    IF module_path \in {<<>>, <<"">>} THEN <<name>> ELSE module_path \o <<name>>

\* The paths the parser of f has registered, as kind, when it visits item j:
\* those of the included items of that kind before it.
RegisteredBefore(f, j, kind) ==
    {FileModule(f) \o <<f.content.items[k].ident>> :
        k \in {i \in 1..(j - 1) :
                 /\ f.content.items[i].item = kind
                 /\ should_process_item([only_annotated |-> config.only_annotated],
                                        f.content.items[i].attrs)}}

\* The items whose TypeKinds the claims on parse_type read: included, with
\* fields the visit reads, and the last declaration of their kind and name.
ItemsRead(f) ==
    {j \in 1..Len(f.content.items) :
        LET item == f.content.items[j] IN
        /\ item.item \in {"struct", "enum"}
        /\ should_process_item([only_annotated |-> config.only_annotated], item.attrs)
        /\ item.item = "struct" => item.fields.style = "named"
        /\ \A k \in (j + 1)..Len(f.content.items) :
              ~(f.content.items[k].item = item.item /\ f.content.items[k].ident = item.ident)}

\* The references of item j of f as parse_type is said to resolve them, those
\* of the paths in enum_paths tagged Enum.
ReferencesOf(f, j, enum_paths) ==
    LET refs == Flatten([i \in 1..Len(TypesRead(f.content.items[j])) |->
                           LeafRefs(ExpandAliases(TypesRead(f.content.items[j])[i],
                                                  AliasTableOf(f.content.items),
                                                  StackLimit + 1))])
    IN [i \in 1..Len(refs) |->
          LET path == QualifiedPath(ReferenceModule(f, refs[i]), Last(refs[i]))
          IN [kind |-> IF path \in enum_paths THEN "Enum" ELSE "Struct",
              name |-> Last(refs[i]), path |-> path]]

ReferencesHeld(f, j) ==
    Flatten([i \in 1..Len(KindsHeld(ParserOf(f), f, f.content.items[j])) |->
                LeafKinds(KindsHeld(ParserOf(f), f, f.content.items[j])[i])])

\* C22 as stated: in every file the run has parsed, every type reference of
\* every included item has the name of its last segment and the path of its
\* module (the segments before the last without a leading super, or the
\* module of the file for a bare name), and is tagged Enum exactly when that
\* path is registered as an enum in the parser when the item is visited.
C22_ReferenceResolution_Original ==
    \A f \in ParsedFiles : \A j \in ItemsRead(f) :
        ReferencesHeld(f, j) = ReferencesOf(f, j, RegisteredBefore(f, j, "enum"))

\* C22 amended: as above, with the tag Enum exactly when the path is
\* registered as an enum and not as a struct when the item is visited.
C22_ReferenceResolution ==
    \A f \in ParsedFiles : \A j \in ItemsRead(f) :
        ReferencesHeld(f, j) =
            ReferencesOf(f, j, RegisteredBefore(f, j, "enum") \ RegisteredBefore(f, j, "struct"))

\* A struct whose field names a path registered as a struct and as an enum
\* was parsed: the reference is a Struct.
C22_Witness ==
    \E f \in ParsedFiles : \E j \in ItemsRead(f) : \E i \in 1..Len(ReferencesHeld(f, j)) :
        /\ ReferencesHeld(f, j)[i].kind = "Struct"
        /\ ReferencesHeld(f, j)[i].path
              \in RegisteredBefore(f, j, "enum") \cap RegisteredBefore(f, j, "struct")

\* ------------------------------------------------------- C23
\* The names the fields of the merged types of a module reference: each is
\* emitted as <Name>Schema in the text of the module.
NamesReferencedIn(m) ==
    {Last(p) : p \in UNION {IF d \in DOMAIN all_structs
                             THEN FieldsPaths(all_structs[d].fields)
                             ELSE UNION {FieldsPaths(all_enums[d].variants[v].fields.list) :
                                            v \in 1..Len(all_enums[d].variants)} :
                            d \in {x \in Declared : ModuleOfDecl(x) = m}}}

\* C23: after a successful run, every name the text of a module refers to as
\* <Name>Schema is bound in that text, or is imported by it from a module
\* whose text binds and exports it.
C23_NoDanglingReference ==
    outcome = "ok" =>
        \A m \in DeclaredModules : \A n \in NamesReferencedIn(m) :
            \/ n \in ExportedConsts(TextOf(m))
            \/ \E m2 \in DeclaredModules :
                  /\ n \in ImportsFrom(TextOf(m), m2)
                  /\ n \in ExportedConsts(TextOf(m2))
                  /\ n \in ExportList(TextOf(m2))

\* ------------------------------------------------------- C24
\* The types of module m reference a type named n of module m2.
ReferencesInto(m, m2, n) ==
    \E a \in Declared : \E b \in RefsOf(a) :
        ModuleOfDecl(a) = m /\ ModuleOfDecl(b) = m2 /\ Last(b) = n

\* C24: after a successful convert, the text of a module imports a name from
\* another module only when a type of the module itself references the type
\* of that name and module, and the text of a module whose types reference
\* nothing outside it goes from the base import straight to the blank line.
C24_ImportMinimality ==
    (entry = "convert" /\ outcome = "ok") =>
        \A m \in DeclaredModules :
            /\ \A m2 \in DeclaredModules : \A n \in ImportsFrom(TextOf(m), m2) :
                  ReferencesInto(m, m2, n)
            /\ (\A a \in Declared : ModuleOfDecl(a) = m =>
                    \A b \in RefsOf(a) : ModuleOfDecl(b) = m)
               => TextOf(m)[2] = ""

\* ------------------------------------------------------- C25
\* The lines of a text that open a binding of a name.
BindingsOf(lines, n) ==
    {i \in 1..Len(lines) :
        lines[i] \in {"export const " \o n \o "Schema = b.struct({",
                      "export const " \o n \o "Schema = b.enum({"}}

\* C25: after a successful run, the text of a module holds one binding of
\* every name an included declaration of the module has, never two of one
\* name, and none of a name no included declaration of the module has.
C25_OneBindingPerType ==
    outcome = "ok" =>
        \A m \in DeclaredModules : \A n \in SourceNames :
            Cardinality(BindingsOf(TextOf(m), n)) = IF n \in IncludedNamesOf(m) THEN 1 ELSE 0

\* ------------------------------------------------------- C26
\* A TypeKind with the tags of its references replaced: all Struct, all Enum,
\* or each by the other.
RECURSIVE Retag(_, _)
Retag(tk, to) ==
    CASE tk.kind \in {"Struct", "Enum"} ->
            [tk EXCEPT !.kind = IF to = "swap" THEN (IF @ = "Struct" THEN "Enum" ELSE "Struct")
                                ELSE to]
      [] tk.kind \in {"Vec", "Option", "Array"} -> [tk EXCEPT !.inner = Retag(@, to)]
      [] tk.kind = "HashMap" -> [tk EXCEPT !.key = Retag(@, to), !.value = Retag(@, to)]
      [] OTHER -> tk

RetagFields(fields, to) ==
    [i \in 1..Len(fields) |-> [fields[i] EXCEPT !.type_kind = Retag(@, to)]]

RetagStructs(structs, to) ==
    [p \in DOMAIN structs |-> [structs[p] EXCEPT !.fields = RetagFields(@, to)]]

RetagEnums(enums, to) ==
    [p \in DOMAIN enums |->
        [enums[p] EXCEPT !.variants =
            [v \in 1..Len(@) |-> [@[v] EXCEPT !.fields.list = RetagFields(@, to)]]]]

\* C26: for the types of a run that succeeded, with the tags of the references
\* replaced the graph has the same nodes and edges under every iteration
\* order of the maps, the grouping of its sorted paths and the import
\* manifest are the same, and every module has the same text.
C26_TagIsInert ==
    outcome = "ok" =>
        \A to \in {"Struct", "Enum", "swap"} :
            LET structs == RetagStructs(all_structs, to)
                enums == RetagEnums(all_enums, to)
            IN /\ \A s_order \in Perms(DOMAIN all_structs), e_order \in Perms(DOMAIN all_enums) :
                     LET graph == resolve_graph(all_structs, all_enums, s_order, e_order)
                         sorted == toposort(Len(graph.nodes), graph.edges)
                     IN /\ resolve_graph(structs, enums, s_order, e_order) = graph
                        /\ module_groups_of(structs, enums,
                                            sorted_paths_of(graph.nodes, sorted.order), EmptyMap)
                           = module_groups_of(all_structs, all_enums,
                                              sorted_paths_of(graph.nodes, sorted.order), EmptyMap)
                        /\ module_imports_of(structs, enums, graph.nodes, graph.edges)
                           = module_imports_of(all_structs, all_enums, graph.nodes, graph.edges)
               /\ \A m \in DeclaredModules :
                  \A key_order \in Perms(DOMAIN dependencies.module_imports) :
                  \A name_order \in Perms(UNION {dependencies.module_imports[k] :
                                                    k \in DOMAIN dependencies.module_imports}) :
                     generate_module(structs, enums, m, dependencies, key_order, name_order)
                     = generate_module(all_structs, all_enums, m, dependencies,
                                       key_order, name_order)

\* A run succeeded on a unit in which one reference to a declared enum is
\* tagged Enum and another, read before the enum was registered, Struct.
C26_Witness ==
    /\ outcome = "ok"
    /\ \E p \in DOMAIN all_structs : \E i \in 1..Len(all_structs[p].fields) :
          /\ all_structs[p].fields[i].type_kind.kind = "Enum"
          /\ all_structs[p].fields[i].type_kind.path \in DOMAIN all_enums
    /\ \E p \in DOMAIN all_structs : \E i \in 1..Len(all_structs[p].fields) :
          /\ all_structs[p].fields[i].type_kind.kind = "Struct"
          /\ all_structs[p].fields[i].type_kind.path \in DOMAIN all_enums

\* ------------------------------------------------------- C27
\* The structs and enums merged from the first n files of order, each read by
\* a parser of its own.
RECURSIVE MergedIn(_, _)
MergedIn(order, n) ==
    IF n = 0 THEN [structs |-> EmptyMap, enums |-> EmptyMap]
    ELSE LET before == MergedIn(order, n - 1)
             parser == ParserOf(source_files[order[n]])
         IN [structs |-> [k \in (DOMAIN before.structs) \cup (DOMAIN parser.structs) |->
                             IF k \in DOMAIN parser.structs
                             THEN parser.structs[k] ELSE before.structs[k]],
             enums |-> [k \in (DOMAIN before.enums) \cup (DOMAIN parser.enums) |->
                             IF k \in DOMAIN parser.enums
                             THEN parser.enums[k] ELSE before.enums[k]]]

\* C27: once convert has parsed and merged every file, the merged structs and
\* enums are the ones any other order of the files gives.
C27_MergeOrderIndependent ==
    (entry = "convert" /\ next_file > Len(source_files)) =>
        \A order \in Perms(1..Len(source_files)) :
            MergedIn(order, Len(source_files)) = [structs |-> all_structs, enums |-> all_enums]

\* ------------------------------------------------------- C28
\* The keys under which the parser of f registers its declarations of name.
KeysOf(f, name) ==
    {k \in DOMAIN ParserOf(f).structs : ParserOf(f).structs[k].name = name}
    \cup {k \in DOMAIN ParserOf(f).enums : ParserOf(f).enums[k].name = name}

\* The references of item j of f as they are written, left to right.
ReferencesWritten(f, j) ==
    Flatten([i \in 1..Len(TypesRead(f.content.items[j])) |->
                LeafRefs(ExpandAliases(TypesRead(f.content.items[j])[i],
                                       AliasTableOf(f.content.items), StackLimit + 1))])

\* The files of two modules with one parent module.
Siblings(f1, f2) ==
    /\ FileModule(f1) # FileModule(f2)
    /\ FileModule(f1) # <<"">> /\ FileModule(f2) # <<"">>
    /\ Front(FileModule(f1)) = Front(FileModule(f2))

\* C28: in the files a run of convert has parsed, a bare reference to a type
\* declared in the same file, and a super::m::B reference to a type B declared
\* in the file of the sibling module m, is held with the path that is the key
\* under which that declaration is registered.
C28_ReferenceIsKey ==
    entry = "convert" =>
        \A f1 \in ParsedFiles : \A f2 \in ParsedFiles : \A j \in ItemsRead(f1) :
            \A i \in 1..Len(ReferencesWritten(f1, j)) :
                LET segs == ReferencesWritten(f1, j)[i]
                    keys == KeysOf(f2, Last(segs))
                IN (/\ keys # {}
                    /\ \/ f1 = f2 /\ Len(segs) = 1
                       \/ Siblings(f1, f2)
                          /\ segs = <<"super", Last(FileModule(f2)), Last(segs)>>)
                   => /\ i <= Len(ReferencesHeld(f1, j))
                      /\ ReferencesHeld(f1, j)[i].path \in keys

====
